---- MODULE Spec2Model ----
(***************************************************************************)
(* DynaPort: the port allocator (dynaport/port_allocator.py), the service  *)
(* registry (dynaport/core/service_registry.py) and the configuration      *)
(* manager (dynaport/config_manager.py).                                   *)
(*                                                                         *)
(* Spec     the allocator: one live PortAllocator on a storage file, the   *)
(*          sockets other processes hold, and construction of a new        *)
(*          allocator on the same file.                                    *)
(* SpecSnap the allocator and a caller that changes the map                *)
(*          get_all_assignments gave it.                                   *)
(* SpecDep  the registry's service table and get_dependency_order, one     *)
(*          action per iteration of its while loop.                        *)
(* SpecReg  the registry's table and file under register_service,          *)
(*          unregister_service and update_service_status.                  *)
(* SpecHealth the health-check worker, one action per service of a cycle,  *)
(*          next to foreground calls on the same registry.                 *)
(* SpecCheck _check_service_health on one service of every check type,     *)
(*          with and without an endpoint and a command.                    *)
(* SpecWorker the worker thread itself: its loop, the stop event, close(), *)
(*          and foreground calls between its steps; SpecWorkerFair adds    *)
(*          that a live worker keeps running.                              *)
(* SpecLoad construction of a registry or an allocator on a file that is   *)
(*          missing, intact or damaged.                                    *)
(* SpecMerge _merge_config on pairs of configuration trees.                *)
(* SpecConfig a ConfigManager on a directory of layer files, and           *)
(*          get_app_config called on it repeatedly.                        *)
(* SpecFrame _check_service_health called directly and by the worker's     *)
(*          cycle, on a registry of two services.                          *)
(* SpecWorkerLive SpecWorkerFair with a clock that keeps running.          *)
(* SpecFlask one DynaPortFlask object (dynaport/flask_integration.py) on   *)
(*          an allocator, a registry and a config manager.                 *)
(***************************************************************************)
EXTENDS Integers, FiniteSets, Sequences, Bags, TLC

VARIABLES
    port_assignments,   \* PortAllocator.port_assignments: app_id -> port
    reserved_ports,     \* PortAllocator.reserved_ports
    storage_file,       \* the file at storage_path: [state, data]
    bound_ports,        \* ports on which a bind to 127.0.0.1 fails
    reloaded,           \* the live allocator is not the first on the file
    call,               \* the latest call on the allocator and its outcome
    snapshot,           \* the map get_all_assignments returned to its caller
    services,           \* ServiceRegistry.services: service_id -> ServiceInfo
    dep_pc,             \* position inside get_dependency_order
    graph,              \* local of get_dependency_order
    no_deps,            \* local of get_dependency_order
    result,             \* local of get_dependency_order
    order,              \* what the latest get_dependency_order returned
    services_file,      \* the file at the registry's storage_path
    rcall,              \* the latest call on the registry and its outcome
    hc_pc,              \* position of the health-check worker thread
    hc_snapshot,        \* list(self.services.items()) of the running cycle
    hc_checked,         \* the snapshot's services the cycle is done with
    registry_up,        \* the registry's constructor returned
    stop_health_check,  \* ServiceRegistry.stop_health_check is set
    workers,            \* the worker threads started, each one's position
    interval_over,      \* the interval of the running stop.wait has passed
    hc_current,         \* the service whose check is stamped, not finished
    close_pc,           \* position of the foreground thread inside close
    config,             \* ConfigManager.config
    config_files,       \* the YAML files of config_dir: name -> tree
    app_config,         \* what the latest get_app_config returned
    ccall,              \* the latest call on the config manager
    flask               \* the DynaPortFlask object and its caller's position

alloc_vars == <<port_assignments, reserved_ports, storage_file, bound_ports,
                reloaded, call>>
dep_vars == <<services, dep_pc, graph, no_deps, result, order>>
health_vars == <<hc_pc, hc_snapshot, hc_checked>>
registry_vars == <<dep_vars, services_file, rcall, health_vars>>
thread_vars == <<registry_up, stop_health_check, workers, interval_over,
                 hc_current, close_pc>>
vars == <<port_assignments, reserved_ports, storage_file, bound_ports,
          reloaded, call, snapshot, services, dep_pc, graph, no_deps, result,
          order, services_file, rcall, hc_pc, hc_snapshot, hc_checked,
          registry_up, stop_health_check, workers, interval_over, hc_current,
          close_pc, config, config_files, app_config, ccall, flask>>
config_vars == <<config, config_files, app_config, ccall>>

\* what the allocator's own methods leave alone
not_alloc_vars == <<snapshot, registry_vars, thread_vars, config_vars, flask>>

\* what the registry's table methods and get_dependency_order leave alone
not_dep_vars == <<alloc_vars, snapshot, rcall, health_vars, thread_vars,
                  config_vars, flask>>

\* what the registry's methods on the table and the checks leave alone
not_registry_vars == <<alloc_vars, snapshot, thread_vars, config_vars,
                       flask>>

\* what the registry and its worker threads leave alone
not_thread_vars == <<alloc_vars, snapshot, config_vars, flask>>

\* what the allocator and the caller of get_all_assignments leave alone
not_alloc_snap_vars == <<registry_vars, thread_vars, config_vars, flask>>

\* what the config manager leaves alone
not_config_vars == <<alloc_vars, snapshot, registry_vars, thread_vars,
                     flask>>

----------------------------------------------------------------------------
(* Bounds and constants                                                    *)

MinPort == 8000
MaxPort == 8002
MaxDeps == 2
MaxStarts == 2

port_range == <<MinPort, MaxPort>>

\* the ports of the configured range
RangePorts == port_range[1] .. port_range[2]

\* one port above the range, for preferred ports outside it
OutsidePort == port_range[2] + 1

AppIds == {"svc:1", "svc:2"}

\* service ids "app_id:instance_id", registered or only named as a dependency
ServiceIds == {"A:1", "B:1", "C:1", "D:1"}

\* the applications that register, each with the one instance "1"; "D:1"
\* is only ever named as a dependency
DepAppIds == {"A", "B", "C"}

\* dependencies arguments: ServiceInfo.dependencies with order and
\* repetitions dropped, as get_dependency_order reads them (graph[id].add)
DependencyArgs == {deps \in SUBSET ServiceIds : Cardinality(deps) <= MaxDeps}

\* Optional[int] None, and the RuntimeError of find_available_port
None == 0
RuntimeError == -1

\* time.time(). A timestamp is kept relative to the clock: now is the
\* clock's present value, Earlier any value it had before
Earlier == 1
now == 2

EmptyTable == [k \in {} |-> None]

\* the dataclass ServiceInfo with the defaults of its fields. Optional[str]
\* None is "", which "not x" cannot tell from None; dependencies is the
\* list with order and repetitions dropped; metadata and
\* health_check_custom stay the empty dict
ServiceInfo(app_id, instance_id, name, port) ==
    [app_id |-> app_id, instance_id |-> instance_id, name |-> name,
     port |-> port, host |-> "127.0.0.1", status |-> "unknown",
     health_endpoint |-> "", last_health_check |-> None,
     health_status |-> "unknown", dependencies |-> {}, metadata |-> <<>>,
     technology |-> "", health_check_type |-> "http",
     health_check_command |-> "", health_check_custom |-> <<>>]

\* ServiceInfo.service_id
ServiceInfo_service_id(service) == service.app_id \o ":" \o service.instance_id

\* f"{app_id}:{instance_id}" of the registry's methods
service_key(app_id, instance_id) == app_id \o ":" \o instance_id

NoService == ServiceInfo("", "", "", None)

NoRCall == [op |-> "init", app_id |-> "", instance_id |-> "",
            service |-> NoService, status |-> "", outcome |-> "",
            path |-> ""]

NoCall == [op |-> "init", app_id |-> "", port |-> None, ret |-> None,
           avail |-> FALSE, path |-> "", repeat |-> FALSE]

NoCCall == [op |-> "init", app_id |-> "", instance_id |-> "",
            base |-> EmptyTable, override |-> EmptyTable]

----------------------------------------------------------------------------
(* PortAllocator                                                           *)

_load_port_assignments_nothing == EmptyTable

\* json.load of the storage file; a missing or corrupt file is an empty table
_load_port_assignments ==
    IF storage_file.state = "ok" THEN storage_file.data ELSE EmptyTable

_save_port_assignments_skipped(table) == storage_file

\* json.dump of the whole table over the storage file
_save_port_assignments(table) == [state |-> "ok", data |-> table]

is_port_available_noreserve(port) == port \notin bound_ports

is_port_available_unprobed(port) == port \notin reserved_ports

is_port_available(port) ==
    IF port \in reserved_ports THEN FALSE ELSE port \notin bound_ports

InRange(port) == port_range[1] <= port /\ port <= port_range[2]

used_ports == {port_assignments[k] : k \in DOMAIN port_assignments}

find_available_port_fresh_only ==
    {p \in RangePorts : p \notin reserved_ports /\ p \notin used_ports
                        /\ is_port_available(p)}

find_available_port_no_preference ==
    {p \in RangePorts : is_port_available(p)}

\* The ports find_available_port can return; it raises RuntimeError when the
\* set is empty.  The used ports are visited in set order and the others in
\* shuffled order, so any port of the first non-empty group can be the one.
find_available_port ==
    LET used_ok == {p \in used_ports : InRange(p) /\ is_port_available(p)}
        available_ports == {p \in RangePorts :
                               p \notin reserved_ports /\ p \notin used_ports}
        fresh_ok == {p \in available_ports : is_port_available(p)}
    IN  IF used_ok # {} THEN used_ok ELSE fresh_ok

assigned_still_available_never(app_id) == FALSE

\* allocate_port, first branch: the app has a port and it still probes free
assigned_still_available(app_id) ==
    /\ app_id \in DOMAIN port_assignments
    /\ is_port_available(port_assignments[app_id])

preferred_usable_norange(preferred_port) ==
    /\ preferred_port # None
    /\ is_port_available(preferred_port)

\* allocate_port, second branch: a preferred port in range that probes free
preferred_usable(preferred_port) ==
    /\ preferred_port # None
    /\ InRange(preferred_port)
    /\ is_port_available(preferred_port)

Assign(app_id, port) ==
    [k \in DOMAIN port_assignments \cup {app_id} |->
        IF k = app_id THEN port ELSE port_assignments[k]]

Remove_all(app_id) == EmptyTable

Remove(app_id) ==
    [k \in DOMAIN port_assignments \ {app_id} |-> port_assignments[k]]

\* port_assignments.get(app_id)
get_assigned_port(app_id) ==
    IF app_id \in DOMAIN port_assignments
    THEN port_assignments[app_id] ELSE None

\* The record of a call: its name and arguments, what it returned (ret, or
\* avail for the boolean of is_port_available), the branch it took, and
\* whether it repeats the previous call (an allocate_port for the same app
\* right after an allocate_port that returned a port).
Outcome(op, app_id, port, ret, avail, path) ==
    [op |-> op, app_id |-> app_id, port |-> port, ret |-> ret,
     avail |-> avail, path |-> path, repeat |-> FALSE]

AllocateOutcome(app_id, preferred_port, ret, path) ==
    [op |-> "allocate_port", app_id |-> app_id, port |-> preferred_port,
     ret |-> ret, avail |-> FALSE, path |-> path,
     repeat |-> (call.op = "allocate_port" /\ call.app_id = app_id
                 /\ call.ret # RuntimeError)]

allocate_port_forgets_stale(app_id, preferred_port) ==
    /\ IF assigned_still_available(app_id)
       THEN /\ call' = AllocateOutcome(app_id, preferred_port,
                                       port_assignments[app_id], "assigned")
            /\ UNCHANGED <<port_assignments, storage_file>>
       ELSE IF preferred_usable(preferred_port)
       THEN /\ port_assignments' = Assign(app_id, preferred_port)
            /\ storage_file' = _save_port_assignments(port_assignments')
            /\ call' = AllocateOutcome(app_id, preferred_port,
                                       preferred_port, "preferred")
       ELSE IF find_available_port = {}
       THEN /\ port_assignments' = Remove(app_id)
            /\ storage_file' = _save_port_assignments(port_assignments')
            /\ call' = AllocateOutcome(app_id, preferred_port,
                                       RuntimeError, "raise")
       ELSE \E port \in find_available_port :
            /\ port_assignments' = Assign(app_id, port)
            /\ storage_file' = _save_port_assignments(port_assignments')
            /\ call' = AllocateOutcome(app_id, preferred_port, port, "find")
    /\ UNCHANGED <<reserved_ports, bound_ports, reloaded>>

allocate_port(app_id, preferred_port) ==
    /\ IF assigned_still_available(app_id)
       THEN /\ call' = AllocateOutcome(app_id, preferred_port, port_assignments[app_id], "assigned")
            /\ UNCHANGED <<port_assignments, storage_file>>
       ELSE IF preferred_usable(preferred_port)
       THEN /\ port_assignments' = Assign(app_id, preferred_port)
            /\ storage_file' = _save_port_assignments(port_assignments')
            /\ call' = AllocateOutcome(app_id, preferred_port, preferred_port, "preferred")
       ELSE IF find_available_port = {}
       THEN /\ call' = AllocateOutcome(app_id, preferred_port, RuntimeError, "raise")
            /\ UNCHANGED <<port_assignments, storage_file>>
       ELSE \E port \in find_available_port :
            /\ port_assignments' = Assign(app_id, port)
            /\ storage_file' = _save_port_assignments(port_assignments')
            /\ call' = AllocateOutcome(app_id, preferred_port, port, "find")
    /\ UNCHANGED <<reserved_ports, bound_ports, reloaded>>

release_port_unguarded(app_id) ==
    /\ IF app_id \in DOMAIN port_assignments
       THEN /\ port_assignments' = Remove(app_id)
            /\ storage_file' = _save_port_assignments(port_assignments')
            /\ call' = Outcome("release_port", app_id, None, None, FALSE,
                               "removed")
       ELSE /\ call' = Outcome("release_port", app_id, None, RuntimeError,
                               FALSE, "raise")
            /\ UNCHANGED <<port_assignments, storage_file>>
    /\ UNCHANGED <<reserved_ports, bound_ports, reloaded>>

release_port(app_id) ==
    /\ IF app_id \in DOMAIN port_assignments
       THEN /\ port_assignments' = Remove(app_id)
            /\ storage_file' = _save_port_assignments(port_assignments')
            /\ call' = Outcome("release_port", app_id, None, None, FALSE,
                               "removed")
       ELSE /\ call' = Outcome("release_port", app_id, None, None, FALSE,
                               "absent")
            /\ UNCHANGED <<port_assignments, storage_file>>
    /\ UNCHANGED <<reserved_ports, bound_ports, reloaded>>

reserve_port(port) ==
    /\ reserved_ports' = reserved_ports \cup {port}
    /\ call' = Outcome("reserve_port", "", port, None, FALSE, "")
    /\ UNCHANGED <<port_assignments, storage_file, bound_ports, reloaded>>

unreserve_port(port) ==
    /\ reserved_ports' = IF port \in reserved_ports
                         THEN reserved_ports \ {port} ELSE reserved_ports
    /\ call' = Outcome("unreserve_port", "", port, None, FALSE, "")
    /\ UNCHANGED <<port_assignments, storage_file, bound_ports, reloaded>>

\* a direct call of is_port_available
IsPortAvailableCall(port) ==
    /\ call' = Outcome("is_port_available", "", port, None,
                       is_port_available(port), "")
    /\ UNCHANGED <<port_assignments, reserved_ports, storage_file,
                   bound_ports, reloaded>>

\* a direct call of find_available_port
FindAvailablePortCall ==
    /\ IF find_available_port = {}
       THEN call' = Outcome("find_available_port", "", None, RuntimeError,
                            FALSE, "raise")
       ELSE \E port \in find_available_port :
                call' = Outcome("find_available_port", "", None, port,
                                FALSE, "find")
    /\ UNCHANGED <<port_assignments, reserved_ports, storage_file,
                   bound_ports, reloaded>>

\* PortAllocator(storage_path, port_range, reserved_ports): a new allocator on
\* the same storage file; the previous one is not used any more
Construct(reserved) ==
    /\ reloaded' = TRUE
    /\ reserved_ports' = reserved
    /\ port_assignments' = _load_port_assignments
    /\ call' = Outcome("construct", "", None, None, FALSE, "")
    /\ UNCHANGED <<storage_file, bound_ports>>

\* another process binds a port of the range, or closes its socket
EnvBind(port) ==
    /\ port \notin bound_ports
    /\ bound_ports' = bound_ports \cup {port}
    /\ UNCHANGED <<port_assignments, reserved_ports, storage_file,
                   reloaded, call>>

EnvClose(port) ==
    /\ port \in bound_ports
    /\ bound_ports' = bound_ports \ {port}
    /\ UNCHANGED <<port_assignments, reserved_ports, storage_file,
                   reloaded, call>>

\* reserved_ports arguments of the constructor
ReservedArgs == {{}, {MinPort}}

\* preferred_port arguments: none, two ports of the range, one outside it
PreferredArgs == {None, MinPort, MinPort + 1, OutsidePort}

\* port arguments of reserve_port, unreserve_port and is_port_available
ProbeArgs == {MinPort, MinPort + 1}

NoSnapshot == [held |-> FALSE, data |-> EmptyTable, shared |-> FALSE]

SnapIdle == snapshot = NoSnapshot

\* no DynaPortFlask object
NoFlask == [pc |-> "none", port |-> None, app |-> FALSE, last |-> "",
            calls |-> 0]

FlaskIdle == flask = NoFlask

\* no config manager
ConfigIdle ==
    /\ config = EmptyTable
    /\ config_files = EmptyTable
    /\ app_config = EmptyTable
    /\ ccall = NoCCall

DepIdle ==
    /\ services = EmptyTable
    /\ dep_pc = "idle"
    /\ graph = EmptyTable
    /\ no_deps = {}
    /\ result = <<>>
    /\ order = <<>>

\* the worker between two cycles, no cycle run yet
HealthIdle ==
    /\ hc_pc = "idle"
    /\ hc_snapshot = EmptyTable
    /\ hc_checked = EmptyTable

\* no check between its stamp and its result
NoCheck == [key |-> "", before |-> NoService]

\* the registry's threads left out: no worker thread, no close
ThreadIdle ==
    /\ registry_up = TRUE
    /\ stop_health_check = FALSE
    /\ workers = <<>>
    /\ interval_over = FALSE
    /\ hc_current = NoCheck
    /\ close_pc = "idle"

\* a registry constructed on a missing file, nothing called on it
RegistryIdle ==
    /\ DepIdle
    /\ services_file = [state |-> "missing", data |-> {}]
    /\ rcall = NoRCall
    /\ HealthIdle
    /\ ThreadIdle

Init ==
    /\ storage_file \in {[state |-> "missing", data |-> EmptyTable],
                         [state |-> "corrupt", data |-> EmptyTable]}
    /\ port_assignments = _load_port_assignments
    /\ reserved_ports \in ReservedArgs
    /\ bound_ports = {}
    /\ reloaded = FALSE
    /\ call = NoCall
    /\ SnapIdle
    /\ FlaskIdle
    /\ ConfigIdle
    /\ RegistryIdle

Next ==
    \/ \E app_id \in AppIds, preferred_port \in PreferredArgs :
           allocate_port(app_id, preferred_port) /\ UNCHANGED not_alloc_vars
    \/ \E app_id \in AppIds : release_port(app_id) /\ UNCHANGED not_alloc_vars
    \/ \E port \in ProbeArgs : reserve_port(port) /\ UNCHANGED not_alloc_vars
    \/ \E port \in ProbeArgs : unreserve_port(port) /\ UNCHANGED not_alloc_vars
    \/ \E port \in ProbeArgs : IsPortAvailableCall(port) /\ UNCHANGED not_alloc_vars
    \/ FindAvailablePortCall /\ UNCHANGED not_alloc_vars
    \/ \E reserved \in ReservedArgs : Construct(reserved) /\ UNCHANGED not_alloc_vars
    \/ \E port \in RangePorts : EnvBind(port) /\ UNCHANGED not_alloc_vars
    \/ \E port \in RangePorts : EnvClose(port) /\ UNCHANGED not_alloc_vars

Spec == Init /\ [][Next]_vars

----------------------------------------------------------------------------
(* PortAllocator.get_all_assignments and the caller of it                  *)

get_all_assignments_same_object ==
    [held |-> TRUE, data |-> port_assignments, shared |-> TRUE]

\* port_assignments.copy(): a new map with the same entries; shared tells
\* whether the returned map is the allocator's own dict object
get_all_assignments ==
    [held |-> TRUE, data |-> port_assignments, shared |-> FALSE]

GetAllAssignmentsCall ==
    /\ snapshot' = get_all_assignments
    /\ call' = Outcome("get_all_assignments", "", None, None, FALSE, "")
    /\ UNCHANGED <<port_assignments, reserved_ports, storage_file,
                   bound_ports, reloaded>>

\* keys and ports the caller writes into the map it holds
CallerKeys == AppIds \cup {"svc:3"}
CallerPorts == PreferredArgs \ {None}

\* the caller's map after the allocator changed its table: the same entries
\* as the table when both are one object
SnapshotFollows ==
    snapshot' = IF snapshot.shared
                THEN [snapshot EXCEPT !.data = port_assignments']
                ELSE snapshot

\* the caller runs  assignments[key] = port  on the returned map
CallerSets(key, port) ==
    /\ snapshot.held
    /\ snapshot' = [snapshot EXCEPT !.data =
                       [k \in DOMAIN snapshot.data \cup {key} |->
                           IF k = key THEN port ELSE snapshot.data[k]]]
    /\ port_assignments' = IF snapshot.shared THEN snapshot'.data
                           ELSE port_assignments
    /\ UNCHANGED <<reserved_ports, storage_file, bound_ports, reloaded, call>>

\* the caller runs  del assignments[key]  on the returned map
CallerDeletes(key) ==
    /\ snapshot.held
    /\ key \in DOMAIN snapshot.data
    /\ snapshot' = [snapshot EXCEPT !.data =
                       [k \in DOMAIN snapshot.data \ {key} |->
                           snapshot.data[k]]]
    /\ port_assignments' = IF snapshot.shared THEN snapshot'.data
                           ELSE port_assignments
    /\ UNCHANGED <<reserved_ports, storage_file, bound_ports, reloaded, call>>

InitSnap ==
    /\ storage_file = [state |-> "missing", data |-> EmptyTable]
    /\ port_assignments = _load_port_assignments
    /\ reserved_ports = {}
    /\ bound_ports = {}
    /\ reloaded = FALSE
    /\ call = NoCall
    /\ SnapIdle
    /\ FlaskIdle
    /\ ConfigIdle
    /\ RegistryIdle

NextSnap ==
    \/ \E app_id \in AppIds, preferred_port \in PreferredArgs :
           /\ allocate_port(app_id, preferred_port)
           /\ SnapshotFollows
           /\ UNCHANGED not_alloc_snap_vars
    \/ \E app_id \in AppIds :
           release_port(app_id) /\ SnapshotFollows /\ UNCHANGED not_alloc_snap_vars
    \/ GetAllAssignmentsCall /\ UNCHANGED not_alloc_snap_vars
    \/ \E key \in CallerKeys, port \in CallerPorts :
           CallerSets(key, port) /\ UNCHANGED not_alloc_snap_vars
    \/ \E key \in CallerKeys : CallerDeletes(key) /\ UNCHANGED not_alloc_snap_vars

SpecSnap == InitSnap /\ [][NextSnap]_vars

----------------------------------------------------------------------------
(* ServiceRegistry: the service table and get_dependency_order             *)

\* no call of get_dependency_order is running
DepCallFree == dep_pc \in {"idle", "returned", "raised"}

DepLocalsCleared ==
    /\ graph' = EmptyTable
    /\ no_deps' = {}
    /\ result' = <<>>
    /\ order' = <<>>

\* the list of dicts json.dump writes for the table, order dropped
_save_services_unwritten(table) == services_file

_save_services(table) ==
    [state |-> "ok", data |-> {table[k] : k \in DOMAIN table}]

PutService_merge(table, key, service) ==
    [k \in DOMAIN table \cup {key} |->
        IF k # key THEN table[k]
        ELSE IF key \in DOMAIN table
             THEN [service EXCEPT !.health_status = table[key].health_status]
             ELSE service]

\* table[key] = service
PutService(table, key, service) ==
    [k \in DOMAIN table \cup {key} |->
        IF k = key THEN service ELSE table[k]]

DelService_all(table, key) == EmptyTable

\* del table[key]
DelService(table, key) == [k \in DOMAIN table \ {key} |-> table[k]]

register_service_defaults(service) ==
    /\ DepCallFree
    /\ services' = PutService(services, ServiceInfo_service_id(service),
                       ServiceInfo(service.app_id, service.instance_id,
                                   service.name, service.port))
    /\ services_file' = _save_services(services')
    /\ dep_pc' = "idle"
    /\ DepLocalsCleared

register_service(service) ==
    /\ DepCallFree
    /\ services' = PutService(services, ServiceInfo_service_id(service), service)
    /\ services_file' = _save_services(services')
    /\ dep_pc' = "idle"
    /\ DepLocalsCleared

unregister_service(app_id, instance_id) ==
    /\ DepCallFree
    /\ IF service_key(app_id, instance_id) \in DOMAIN services
       THEN /\ services' =
                  DelService(services, service_key(app_id, instance_id))
            /\ services_file' = _save_services(services')
       ELSE UNCHANGED <<services, services_file>>
    /\ dep_pc' = "idle"
    /\ DepLocalsCleared

\* a service that only names its dependencies
DepService(app_id, dependencies) ==
    [ServiceInfo(app_id, "1", app_id, MinPort) EXCEPT
        !.dependencies = dependencies]

\* reverse_graph[dep]: the services that list dep; "dep in reverse_graph"
\* is reverse_graph(dep) # {}
reverse_graph(dep) ==
    {s \in DOMAIN services : dep \in services[s].dependencies}

initial_no_deps_all(g) == DOMAIN g

\* the services of the graph with an empty dependency set
initial_no_deps(g) == {service_id \in DOMAIN g : g[service_id] = {}}

\* graph[dependent].remove(service_id) raises KeyError when service_id is
\* not in the set
remove_raises(g, nd) ==
    \E service_id \in nd : \E dependent \in reverse_graph(service_id) :
        service_id \notin g[dependent]

\* the graph after the removals of one pass over no_deps
remove_satisfied(g, nd) ==
    [s \in DOMAIN g |->
        g[s] \ {service_id \in nd : s \in reverse_graph(service_id)}]

next_no_deps_any_removed(g, nd) ==
    {dependent \in DOMAIN g :
        \E service_id \in nd : dependent \in reverse_graph(service_id)}

\* the dependents whose set became empty during the pass
next_no_deps(g, nd) ==
    {dependent \in DOMAIN g :
        /\ \E service_id \in nd : dependent \in reverse_graph(service_id)
        /\ remove_satisfied(g, nd)[dependent] = {}}

\* get_dependency_order up to the while loop
GetDependencyOrderBegin ==
    /\ DepCallFree
    /\ graph' = [s \in DOMAIN services |-> services[s].dependencies]
    /\ no_deps' = initial_no_deps(graph')
    /\ result' = <<>>
    /\ dep_pc' = "loop"
    /\ UNCHANGED <<services, services_file, order>>

\* one iteration of "while no_deps"
GetDependencyOrderLoop ==
    /\ dep_pc = "loop"
    /\ no_deps # {}
    /\ IF remove_raises(graph, no_deps)
       THEN /\ dep_pc' = "raised"
            /\ DepLocalsCleared
       ELSE /\ result' = Append(result, no_deps)
            /\ graph' = remove_satisfied(graph, no_deps)
            /\ no_deps' = next_no_deps(graph, no_deps)
            /\ UNCHANGED <<dep_pc, order>>
    /\ UNCHANGED <<services, services_file>>

\* "return result" once no_deps is empty
GetDependencyOrderReturn ==
    /\ dep_pc = "loop"
    /\ no_deps = {}
    /\ order' = result
    /\ dep_pc' = "returned"
    /\ graph' = EmptyTable
    /\ result' = <<>>
    /\ UNCHANGED <<services, services_file, no_deps>>

AllocIdle ==
    /\ storage_file = [state |-> "missing", data |-> EmptyTable]
    /\ port_assignments = EmptyTable
    /\ reserved_ports = {}
    /\ bound_ports = {}
    /\ reloaded = FALSE
    /\ call = NoCall

InitDep == AllocIdle /\ SnapIdle /\ FlaskIdle /\ ConfigIdle /\ RegistryIdle

NextDep ==
    \/ \E app_id \in DepAppIds, dependencies \in DependencyArgs :
           /\ register_service(DepService(app_id, dependencies))
           /\ UNCHANGED not_dep_vars
    \/ \E app_id \in DepAppIds :
           unregister_service(app_id, "1") /\ UNCHANGED not_dep_vars
    \/ GetDependencyOrderBegin /\ UNCHANGED not_dep_vars
    \/ GetDependencyOrderLoop /\ UNCHANGED not_dep_vars
    \/ GetDependencyOrderReturn /\ UNCHANGED not_dep_vars

SpecDep == InitDep /\ [][NextDep]_vars

----------------------------------------------------------------------------
(* ServiceRegistry: calls on the service table                             *)

\* services.get(service_id); NoService stands for the None it returns for a
\* key the table does not hold
get_service(app_id, instance_id) ==
    IF service_key(app_id, instance_id) \in DOMAIN services
    THEN services[service_key(app_id, instance_id)]
    ELSE NoService

\* list(services.values()) as a bag: one element per key, order dropped
get_all_services ==
    [r \in {services[k] : k \in DOMAIN services} |->
        Cardinality({k \in DOMAIN services : services[k] = r})]

update_service_status_unguarded(app_id, instance_id, status) ==
    /\ services' =
           PutService(services, service_key(app_id, instance_id),
               [ServiceInfo(app_id, instance_id, "", None) EXCEPT
                   !.status = status])
    /\ services_file' = _save_services(services')

update_service_status(app_id, instance_id, status) ==
    IF service_key(app_id, instance_id) \in DOMAIN services
    THEN /\ services' =
               [services EXCEPT
                   ![service_key(app_id, instance_id)].status = status]
         /\ services_file' = _save_services(services')
    ELSE UNCHANGED <<services, services_file>>

\* an entry of the worker's snapshot whose ServiceInfo object the table no
\* longer holds; what the object's fields are shows nowhere in the registry
Detached == [service |-> NoService, attached |-> FALSE]

HcSnapshotFollows_by_key(replaced) ==
    hc_snapshot' =
        [k \in DOMAIN hc_snapshot |->
            IF hc_snapshot[k].attached /\ k \in DOMAIN services'
            THEN [service |-> services'[k], attached |-> TRUE]
            ELSE Detached]

\* the worker's snapshot after a foreground call: its entries are the
\* table's own ServiceInfo objects until the table drops or replaces them
HcSnapshotFollows(replaced) ==
    hc_snapshot' =
        [k \in DOMAIN hc_snapshot |->
            IF hc_snapshot[k].attached /\ k \notin replaced
            THEN [service |-> services'[k], attached |-> TRUE]
            ELSE Detached]

RCall(op, app_id, instance_id, service, status, outcome, path) ==
    [op |-> op, app_id |-> app_id, instance_id |-> instance_id,
     service |-> service, status |-> status, outcome |-> outcome,
     path |-> path]

RegisterServiceCall(service) ==
    /\ register_service(service)
    /\ rcall' = RCall("register_service", service.app_id,
                      service.instance_id, service, "", "",
                      IF ServiceInfo_service_id(service) \in DOMAIN services
                      THEN "replaced" ELSE "new")
    /\ HcSnapshotFollows({ServiceInfo_service_id(service)})
    /\ UNCHANGED <<hc_pc, hc_checked>>

UnregisterServiceCall(app_id, instance_id) ==
    /\ unregister_service(app_id, instance_id)
    /\ rcall' = RCall("unregister_service", app_id, instance_id, NoService,
                      "", "",
                      IF service_key(app_id, instance_id) \in DOMAIN services
                      THEN "removed" ELSE "absent")
    /\ HcSnapshotFollows({service_key(app_id, instance_id)})
    /\ UNCHANGED <<hc_pc, hc_checked>>

UpdateServiceStatusCall(app_id, instance_id, status) ==
    /\ update_service_status(app_id, instance_id, status)
    /\ rcall' = RCall("update_service_status", app_id, instance_id,
                      NoService, status, "",
                      IF service_key(app_id, instance_id) \in DOMAIN services
                      THEN "updated" ELSE "absent")
    /\ HcSnapshotFollows({})
    /\ UNCHANGED <<dep_pc, graph, no_deps, result, order, hc_pc, hc_checked>>

\* app ids and instance ids of which two pairs give the one id "A:1:1"
RegAppIds == {"A", "A:1"}
RegInstanceIds == {"1", "1:1"}

\* health_status and last_health_check of the records a caller registers
RegHealthArgs == {<<"unknown", None>>, <<"healthy", Earlier>>}

RegServiceArgs ==
    {[ServiceInfo(app_id, instance_id, app_id, MinPort) EXCEPT
         !.status = status, !.health_status = health[1],
         !.last_health_check = health[2]] :
        app_id \in RegAppIds, instance_id \in RegInstanceIds,
        status \in {"starting", "running"}, health \in RegHealthArgs}

StatusArgs == {"running", "stopped"}

InitReg == AllocIdle /\ SnapIdle /\ FlaskIdle /\ ConfigIdle /\ RegistryIdle

NextReg ==
    \/ \E service \in RegServiceArgs :
           RegisterServiceCall(service) /\ UNCHANGED not_registry_vars
    \/ \E app_id \in RegAppIds, instance_id \in RegInstanceIds :
           /\ UnregisterServiceCall(app_id, instance_id)
           /\ UNCHANGED not_registry_vars
    \/ \E app_id \in RegAppIds, instance_id \in RegInstanceIds,
          status \in StatusArgs :
           /\ UpdateServiceStatusCall(app_id, instance_id, status)
           /\ UNCHANGED not_registry_vars

SpecReg == InitReg /\ [][NextReg]_vars

----------------------------------------------------------------------------
(* ServiceRegistry: health checks                                          *)

\* how the probe of a check ends: "ok" is a response of status 200, a
\* connect_ex of 0 or a return code of 0; "fail" is another status, result
\* or return code; "error" is an exception of the classes the method's own
\* except clause names; "raise" is any other exception
Outcomes == {"ok", "fail", "error", "raise"}

\* the service object after a check and whether the check raised
Checked(service, raised) == [service |-> service, raised |-> raised]

\* the try blocks of the http, tcp and command checks
Probed(service, outcome) ==
    CASE outcome = "ok" ->
             Checked([service EXCEPT !.health_status = "healthy"], FALSE)
      [] outcome \in {"fail", "error"} ->
             Checked([service EXCEPT !.health_status = "unhealthy"], FALSE)
      [] OTHER -> Checked(service, TRUE)

_check_http_health_always_healthy(service, outcome) ==
    Checked([service EXCEPT !.health_status = "healthy"], FALSE)

_check_http_health(service, outcome) ==
    IF service.health_endpoint = ""
    THEN Checked([service EXCEPT !.health_status = "unknown"], FALSE)
    ELSE Probed(service, outcome)

_check_tcp_health_needs_endpoint(service, outcome) ==
    IF service.health_endpoint = ""
    THEN Checked([service EXCEPT !.health_status = "unknown"], FALSE)
    ELSE Probed(service, outcome)

_check_tcp_health(service, outcome) == Probed(service, outcome)

_check_command_health(service, outcome) ==
    IF service.health_check_command = ""
    THEN Checked([service EXCEPT !.health_status = "unknown"], FALSE)
    ELSE Probed(service, outcome)

_check_custom_health_keeps(service) == Checked(service, FALSE)

_check_custom_health(service) ==
    Checked([service EXCEPT !.health_status = "unknown"], FALSE)

NoCheckConfigured_never(service) == FALSE

\* "Skip if no health check is configured"
NoCheckConfigured(service) ==
    /\ service.health_endpoint = ""
    /\ service.health_check_type # "tcp"
    /\ service.health_check_command = ""

\* the check sends a request, connects or runs a command
Probes(service) ==
    /\ ~NoCheckConfigured(service)
    /\ \/ service.health_check_type = "http" /\ service.health_endpoint # ""
       \/ service.health_check_type = "tcp"
       \/ /\ service.health_check_type = "command"
          /\ service.health_check_command # ""

\* "Perform health check based on type", on the stamped service
check_by_type(stamped, outcome) ==
    CASE stamped.health_check_type = "http" ->
             _check_http_health(stamped, outcome)
      [] stamped.health_check_type = "tcp" ->
             _check_tcp_health(stamped, outcome)
      [] stamped.health_check_type = "command" ->
             _check_command_health(stamped, outcome)
      [] stamped.health_check_type = "custom" ->
             _check_custom_health(stamped)
      [] OTHER -> Checked(stamped, FALSE)

_check_service_health(service, outcome) ==
    IF NoCheckConfigured(service)
    THEN Checked(service, FALSE)
    ELSE check_by_type([service EXCEPT !.last_health_check = now], outcome)

\* how a call of _check_service_health on the service went
CheckPath(service, outcome) ==
    IF NoCheckConfigured(service) THEN "skipped"
    ELSE IF _check_service_health(service, outcome).raised THEN "raised"
    ELSE "returned"

\* the probe's outcome, "" when the check made no probe
ProbeOutcome(service, outcome) == IF Probes(service) THEN outcome ELSE ""

\* a foreground caller runs _check_service_health on a registered service
CheckServiceHealthCall(app_id, instance_id, outcome) ==
    /\ service_key(app_id, instance_id) \in DOMAIN services
    /\ LET service == get_service(app_id, instance_id) IN
           /\ services' =
                  [services EXCEPT ![service_key(app_id, instance_id)] =
                      _check_service_health(service, outcome).service]
           /\ rcall' = RCall("_check_service_health", app_id, instance_id,
                             NoService, "", ProbeOutcome(service, outcome),
                             CheckPath(service, outcome))
    /\ HcSnapshotFollows({})
    /\ UNCHANGED <<services_file, dep_pc, graph, no_deps, result, order,
                   hc_pc, hc_checked>>

\* _check_all_services_health: list(self.services.items())
CheckAllServicesHealthBegin ==
    /\ hc_pc = "idle"
    /\ hc_pc' = "cycle"
    /\ hc_snapshot' = [k \in DOMAIN services |->
                          [service |-> services[k], attached |-> TRUE]]
    /\ hc_checked' = EmptyTable
    /\ UNCHANGED <<services, services_file, dep_pc, graph, no_deps, result,
                   order, rcall>>

except_Exception_pass(service) == service

except_Exception_status_error(service) ==
    [service EXCEPT !.status = "error", !.health_status = "unhealthy",
                    !.last_health_check = now]

\* the handler of the loop body
except_Exception(service) ==
    [service EXCEPT !.health_status = "unhealthy", !.last_health_check = now]

\* hc_checked after the loop is done with the service
CheckedAs(key, how) ==
    [k \in DOMAIN hc_checked \cup {key} |->
        IF k = key THEN how ELSE hc_checked[k]]

\* one pass of the for loop, on a service of the snapshot the loop has not
\* visited; the list's order is left open. The check of an object the table
\* no longer holds changes that object alone
CheckAllServicesHealthCheck(key, outcome) ==
    /\ hc_pc = "cycle"
    /\ key \in DOMAIN hc_snapshot \ DOMAIN hc_checked
    /\ IF hc_snapshot[key].attached
       THEN LET service == hc_snapshot[key].service
                res == _check_service_health(service, outcome)
                after == IF res.raised THEN except_Exception(res.service)
                         ELSE res.service
            IN  /\ hc_snapshot' = [hc_snapshot EXCEPT ![key].service = after]
                /\ services' = [services EXCEPT ![key] = after]
                /\ hc_checked' =
                       CheckedAs(key, IF res.raised THEN "caught"
                                      ELSE "returned")
                /\ rcall' = RCall("_check_all_services_health",
                                  service.app_id, service.instance_id,
                                  NoService, "",
                                  ProbeOutcome(service, outcome),
                                  IF res.raised THEN "caught"
                                  ELSE CheckPath(service, outcome))
       ELSE /\ hc_checked' = CheckedAs(key, "detached")
            /\ rcall' = RCall("_check_all_services_health", "", "",
                              NoService, "", "", "detached")
            /\ UNCHANGED <<services, hc_snapshot>>
    /\ UNCHANGED <<services_file, dep_pc, graph, no_deps, result, order,
                   hc_pc>>

\* the for loop has visited the whole list
CheckAllServicesHealthEnd ==
    /\ hc_pc = "cycle"
    /\ DOMAIN hc_checked = DOMAIN hc_snapshot
    /\ hc_pc' = "idle"
    /\ hc_snapshot' = EmptyTable
    /\ hc_checked' = EmptyTable
    /\ UNCHANGED <<services, services_file, dep_pc, graph, no_deps, result,
                   order, rcall>>

\* the service seen after the clock moved on
Aged(service) ==
    IF service.last_health_check = now
    THEN [service EXCEPT !.last_health_check = Earlier]
    ELSE service

\* time passes: the timestamps written so far are earlier than the clock
Tick ==
    /\ services' = [k \in DOMAIN services |-> Aged(services[k])]
    /\ services_file' =
           [services_file EXCEPT !.data = {Aged(r) : r \in services_file.data}]
    /\ hc_snapshot' =
           [k \in DOMAIN hc_snapshot |->
               [hc_snapshot[k] EXCEPT !.service = Aged(hc_snapshot[k].service)]]
    /\ rcall' = [rcall EXCEPT !.service = Aged(rcall.service)]
    /\ UNCHANGED <<dep_pc, graph, no_deps, result, order, hc_pc, hc_checked>>

HealthAppIds == {"A", "B"}

\* health_check_type, health_endpoint and health_check_command of the
\* services registered
HealthConfigs == {<<"http", "/health", "">>, <<"http", "", "">>}

HealthServiceArgs ==
    {[ServiceInfo(app_id, "1", app_id, MinPort) EXCEPT
         !.health_check_type = check[1], !.health_endpoint = check[2],
         !.health_check_command = check[3]] :
        app_id \in HealthAppIds, check \in HealthConfigs}

InitHealth == AllocIdle /\ SnapIdle /\ FlaskIdle /\ ConfigIdle /\ RegistryIdle

NextHealth ==
    \/ \E service \in HealthServiceArgs :
           RegisterServiceCall(service) /\ UNCHANGED not_registry_vars
    \/ \E app_id \in HealthAppIds :
           UnregisterServiceCall(app_id, "1") /\ UNCHANGED not_registry_vars
    \/ \E app_id \in HealthAppIds, outcome \in Outcomes :
           /\ CheckServiceHealthCall(app_id, "1", outcome)
           /\ UNCHANGED not_registry_vars
    \/ CheckAllServicesHealthBegin /\ UNCHANGED not_registry_vars
    \/ \E app_id \in HealthAppIds, outcome \in Outcomes :
           /\ CheckAllServicesHealthCheck(service_key(app_id, "1"), outcome)
           /\ UNCHANGED not_registry_vars
    \/ CheckAllServicesHealthEnd /\ UNCHANGED not_registry_vars
    \/ Tick /\ UNCHANGED not_registry_vars

SpecHealth == InitHealth /\ [][NextHealth]_vars

\* One registered service of every health_check_type, with and without a
\* health_endpoint and a health_check_command, registered with the default
\* health fields or with those an earlier check or a loaded file left
CheckTypes == {"http", "tcp", "command", "custom"}

CheckConfigs ==
    {<<type, endpoint, command>> :
        type \in CheckTypes, endpoint \in {"", "/health"},
        command \in {"", "true"}}

CheckServiceArgs ==
    {[ServiceInfo("A", "1", "A", MinPort) EXCEPT
         !.health_check_type = check[1], !.health_endpoint = check[2],
         !.health_check_command = check[3],
         !.health_status = health[1], !.last_health_check = health[2]] :
        check \in CheckConfigs, health \in RegHealthArgs}

InitCheck == AllocIdle /\ SnapIdle /\ FlaskIdle /\ ConfigIdle /\ RegistryIdle

NextCheck ==
    \/ \E service \in CheckServiceArgs :
           RegisterServiceCall(service) /\ UNCHANGED not_registry_vars
    \/ \E outcome \in Outcomes :
           /\ CheckServiceHealthCall("A", "1", outcome)
           /\ UNCHANGED not_registry_vars
    \/ CheckAllServicesHealthBegin /\ UNCHANGED not_registry_vars
    \/ \E outcome \in Outcomes :
           /\ CheckAllServicesHealthCheck(service_key("A", "1"), outcome)
           /\ UNCHANGED not_registry_vars
    \/ CheckAllServicesHealthEnd /\ UNCHANGED not_registry_vars
    \/ Tick /\ UNCHANGED not_registry_vars

SpecCheck == InitCheck /\ [][NextCheck]_vars

\* Two registered services, the first of any health_check_type with or
\* without an endpoint and a command, the second one running on another
\* port and depending on the first; the first is checked directly and both
\* are checked in cycles
FrameServiceArgs ==
    {[ServiceInfo("A", "1", "A", MinPort) EXCEPT
         !.health_check_type = check[1], !.health_endpoint = check[2],
         !.health_check_command = check[3]] : check \in CheckConfigs}

CheckCompanion ==
    [ServiceInfo("B", "1", "B", MinPort + 1) EXCEPT
         !.status = "running", !.health_endpoint = "/health",
         !.dependencies = {"A:1"}]

NextFrame ==
    \/ \E service \in FrameServiceArgs \cup {CheckCompanion} :
           RegisterServiceCall(service) /\ UNCHANGED not_registry_vars
    \/ \E outcome \in Outcomes :
           /\ CheckServiceHealthCall("A", "1", outcome)
           /\ UNCHANGED not_registry_vars
    \/ CheckAllServicesHealthBegin /\ UNCHANGED not_registry_vars
    \/ \E outcome \in Outcomes :
           /\ CheckAllServicesHealthCheck(service_key("A", "1"), outcome)
           /\ UNCHANGED not_registry_vars
    \/ \E outcome \in {"ok", "raise"} :
           /\ CheckAllServicesHealthCheck(service_key("B", "1"), outcome)
           /\ UNCHANGED not_registry_vars
    \/ CheckAllServicesHealthEnd /\ UNCHANGED not_registry_vars

SpecFrame == InitCheck /\ [][NextFrame]_vars

----------------------------------------------------------------------------
(* ServiceRegistry: the worker threads, close, and calls next to them      *)

\* self.health_check_thread: the thread started last, 0 for None
health_check_thread == Len(workers)

\* self.health_check_thread is not None and it is alive
is_alive ==
    /\ health_check_thread # 0
    /\ workers[health_check_thread] # "done"

LiveWorkers == {t \in 1 .. Len(workers) : workers[t] # "done"}

_start_health_check_thread_unguarded ==
    /\ stop_health_check' = FALSE
    /\ workers' = Append(workers, "test")

_start_health_check_thread ==
    IF is_alive
    THEN UNCHANGED <<stop_health_check, workers>>
    ELSE /\ stop_health_check' = FALSE
         /\ workers' = Append(workers, "test")

\* a call of _start_health_check_thread after the constructor's
StartHealthCheckThreadCall ==
    /\ registry_up
    /\ close_pc # "join"
    /\ Len(workers) < MaxStarts
    /\ _start_health_check_thread
    /\ rcall' = RCall("_start_health_check_thread", "", "", NoService, "",
                      "", IF is_alive THEN "alive" ELSE "started")
    /\ UNCHANGED <<dep_vars, services_file, health_vars, registry_up,
                   interval_over, hc_current, close_pc>>

\* _health_check_worker: while not self.stop_health_check.is_set()
WorkerTest(t) ==
    /\ workers[t] = "test"
    /\ workers' = [workers EXCEPT ![t] =
                      IF stop_health_check THEN "done" ELSE "call"]
    /\ UNCHANGED <<registry_vars, registry_up, stop_health_check,
                   interval_over, hc_current, close_pc>>

\* the worker enters _check_all_services_health and lists the table
WorkerBegin(t) ==
    /\ workers[t] = "call"
    /\ CheckAllServicesHealthBegin
    /\ workers' = [workers EXCEPT ![t] = "cycle"]
    /\ UNCHANGED <<registry_up, stop_health_check, interval_over,
                   hc_current, close_pc>>

\* the loop takes the next service and _check_service_health runs up to
\* its dispatch: it returns for a service with no check configured and
\* stamps last_health_check for any other
WorkerStamp(t, key) ==
    /\ workers[t] = "cycle"
    /\ hc_pc = "cycle"
    /\ hc_current = NoCheck
    /\ key \in DOMAIN hc_snapshot \ DOMAIN hc_checked
    /\ LET service == hc_snapshot[key].service IN
       IF ~hc_snapshot[key].attached
       THEN /\ hc_checked' = CheckedAs(key, "detached")
            /\ UNCHANGED <<services, hc_snapshot, hc_current>>
       ELSE IF NoCheckConfigured(service)
       THEN /\ hc_checked' = CheckedAs(key, "returned")
            /\ UNCHANGED <<services, hc_snapshot, hc_current>>
       ELSE /\ services' = [services EXCEPT ![key].last_health_check = now]
            /\ hc_snapshot' =
                   [hc_snapshot EXCEPT ![key].service.last_health_check = now]
            /\ hc_current' = [key |-> key, before |-> service]
            /\ UNCHANGED hc_checked
    /\ UNCHANGED <<services_file, dep_pc, graph, no_deps, result, order,
                   rcall, hc_pc, registry_up, stop_health_check, workers,
                   interval_over, close_pc>>

\* the probe of the stamped check ends and the check writes health_status,
\* or the loop's handler does; on an object the table dropped meanwhile
\* this shows nowhere
WorkerProbe(t, outcome) ==
    /\ workers[t] = "cycle"
    /\ hc_current # NoCheck
    /\ LET key == hc_current.key
           res == check_by_type(hc_snapshot[key].service, outcome)
           after == IF res.raised THEN except_Exception(res.service)
                    ELSE res.service
       IN  IF hc_snapshot[key].attached
           THEN /\ services' = [services EXCEPT ![key] = after]
                /\ hc_snapshot' = [hc_snapshot EXCEPT ![key].service = after]
                /\ hc_checked' = CheckedAs(key, IF res.raised THEN "caught"
                                                ELSE "returned")
           ELSE /\ hc_checked' = CheckedAs(key, "detached")
                /\ UNCHANGED <<services, hc_snapshot>>
    /\ hc_current' = NoCheck
    /\ UNCHANGED <<services_file, dep_pc, graph, no_deps, result, order,
                   rcall, hc_pc, registry_up, stop_health_check, workers,
                   interval_over, close_pc>>

WorkerEnd_returns(t) ==
    /\ workers[t] = "cycle"
    /\ hc_current = NoCheck
    /\ CheckAllServicesHealthEnd
    /\ workers' = [workers EXCEPT ![t] = "done"]
    /\ interval_over' = FALSE
    /\ UNCHANGED <<registry_up, stop_health_check, hc_current, close_pc>>

\* the loop is through its list; the worker goes on to
\* self.stop_health_check.wait(self.health_check_interval)
WorkerEnd(t) ==
    /\ workers[t] = "cycle"
    /\ hc_current = NoCheck
    /\ CheckAllServicesHealthEnd
    /\ workers' = [workers EXCEPT ![t] = "wait"]
    /\ interval_over' = FALSE
    /\ UNCHANGED <<registry_up, stop_health_check, hc_current, close_pc>>

Event_wait_sleeps == interval_over

\* Event.wait(timeout) returns when the flag is set or the timeout is over
Event_wait == stop_health_check \/ interval_over

WorkerWake(t) ==
    /\ workers[t] = "wait"
    /\ Event_wait
    /\ workers' = [workers EXCEPT ![t] = "test"]
    /\ UNCHANGED <<registry_vars, registry_up, stop_health_check,
                   interval_over, hc_current, close_pc>>

\* health_check_interval seconds have passed since the wait began
IntervalElapses ==
    /\ \E t \in 1 .. Len(workers) : workers[t] = "wait"
    /\ ~interval_over
    /\ interval_over' = TRUE
    /\ UNCHANGED <<registry_vars, registry_up, stop_health_check, workers,
                   hc_current, close_pc>>

\* close up to its join: with a live worker it sets the flag and joins;
\* with none it goes straight to _save_services and returns
CloseBegin ==
    /\ registry_up
    /\ close_pc # "join"
    /\ IF is_alive
       THEN /\ stop_health_check' = TRUE
            /\ close_pc' = "join"
            /\ UNCHANGED services_file
       ELSE /\ services_file' = _save_services(services)
            /\ close_pc' = "returned"
            /\ UNCHANGED stop_health_check
    /\ rcall' = RCall("close", "", "", NoService, "", "",
                      IF is_alive THEN "joining" ELSE "no_worker")
    /\ UNCHANGED <<dep_vars, health_vars, registry_up, workers,
                   interval_over, hc_current>>

\* join(timeout=1) returns: the worker has terminated, or a second passed
join == TRUE

\* close from the return of join: _save_services, and close returns
CloseReturn ==
    /\ close_pc = "join"
    /\ join
    /\ services_file' = _save_services(services)
    /\ close_pc' = "returned"
    /\ rcall' = RCall("close", "", "", NoService, "", "",
                      IF is_alive THEN "timeout" ELSE "joined")
    /\ UNCHANGED <<dep_vars, health_vars, registry_up, stop_health_check,
                   workers, interval_over, hc_current>>

WorkerAppIds == {"A", "B"}

\* the services registered: http with an endpoint, registered as healthy
\* with an earlier timestamp
WorkerServiceArgs ==
    {[ServiceInfo(app_id, "1", app_id, MinPort) EXCEPT
         !.health_endpoint = "/health",
         !.health_status = "healthy", !.last_health_check = Earlier] :
        app_id \in WorkerAppIds}

\* the foreground thread is not inside a call of close
Foreground == registry_up /\ close_pc # "join"

\* ServiceRegistry(storage_path) on a missing file has returned: the table
\* is empty and the worker thread is started
InitWorker ==
    /\ AllocIdle
    /\ SnapIdle
    /\ FlaskIdle
    /\ ConfigIdle
    /\ DepIdle
    /\ services_file = [state |-> "missing", data |-> {}]
    /\ rcall = NoRCall
    /\ HealthIdle
    /\ registry_up = TRUE
    /\ stop_health_check = FALSE
    /\ workers = <<"test">>
    /\ interval_over = FALSE
    /\ hc_current = NoCheck
    /\ close_pc = "idle"

WorkerNext(t) ==
    \/ WorkerTest(t) /\ UNCHANGED not_thread_vars
    \/ WorkerBegin(t) /\ UNCHANGED not_thread_vars
    \/ \E key \in DOMAIN hc_snapshot :
           WorkerStamp(t, key) /\ UNCHANGED not_thread_vars
    \/ \E outcome \in Outcomes :
           WorkerProbe(t, outcome) /\ UNCHANGED not_thread_vars
    \/ WorkerEnd(t) /\ UNCHANGED not_thread_vars
    \/ WorkerWake(t) /\ UNCHANGED not_thread_vars

NextWorker ==
    \/ \E t \in 1 .. Len(workers) : WorkerNext(t)
    \/ IntervalElapses /\ UNCHANGED not_thread_vars
    \/ \E service \in WorkerServiceArgs :
           /\ Foreground
           /\ RegisterServiceCall(service)
           /\ UNCHANGED not_registry_vars
    \/ /\ Foreground
       /\ UnregisterServiceCall("A", "1")
       /\ UNCHANGED not_registry_vars
    \/ /\ Foreground
       /\ UpdateServiceStatusCall("A", "1", "running")
       /\ UNCHANGED not_registry_vars
    \/ StartHealthCheckThreadCall /\ UNCHANGED not_thread_vars
    \/ CloseBegin /\ UNCHANGED not_thread_vars
    \/ CloseReturn /\ UNCHANGED not_thread_vars

SpecWorker == InitWorker /\ [][NextWorker]_vars

\* the scheduler runs every thread that can take a step
SpecWorkerFair ==
    /\ SpecWorker
    /\ WF_vars(\E t \in 1 .. Len(workers) : WorkerNext(t))

\* and time passes: a wait that is not cut short ends after the interval
SpecWorkerLive ==
    /\ SpecWorkerFair
    /\ WF_vars(IntervalElapses /\ UNCHANGED not_thread_vars)

----------------------------------------------------------------------------
(* ServiceRegistry: construction on the file as it is found                *)

\* what a file that is there holds when it is not the array a registry
\* wrote: "corrupt" is text json.load rejects with JSONDecodeError,
\* "undecodable" bytes that open(path, 'r') cannot decode as text,
\* "malformed" JSON text that is no array of ServiceInfo records (a record
\* edited to lack a field, a value that is no array)
DamagedFiles == {"corrupt", "undecodable", "malformed"}

\* the table and whether the load raised
Loaded(table, raised) == [services |-> table, raised |-> raised]

\* the for loop of _load_services over the records of the file
from_file(data) ==
    [k \in {ServiceInfo_service_id(r) : r \in data} |->
        CHOOSE r \in data : ServiceInfo_service_id(r) = k]

\* _load_services: returns at once for a missing file, passes on
\* JSONDecodeError, and lets the UnicodeDecodeError of the read and the
\* TypeError of ServiceInfo.from_dict and of the for loop through
_load_services ==
    CASE services_file.state = "missing" -> Loaded(EmptyTable, FALSE)
      [] services_file.state = "corrupt" -> Loaded(EmptyTable, FALSE)
      [] services_file.state = "ok" ->
             Loaded(from_file(services_file.data), FALSE)
      [] OTHER -> Loaded(EmptyTable, TRUE)

\* ServiceRegistry(storage_path): a new registry on the file; the previous
\* one is not used any more. When the load raises there is no registry
RegistryConstruct ==
    /\ services' = _load_services.services
    /\ registry_up' = ~_load_services.raised
    /\ rcall' = RCall("construct", "", "", NoService, "", "",
                      IF _load_services.raised THEN "raised"
                      ELSE services_file.state)
    /\ dep_pc' = "idle"
    /\ DepLocalsCleared
    /\ UNCHANGED <<services_file, health_vars, stop_health_check, workers,
                   interval_over, hc_current, close_pc>>

\* the file is deleted or overwritten from outside the registry
EnvDamage(state) ==
    /\ services_file.state # state
    /\ services_file' = [state |-> state, data |-> {}]
    /\ UNCHANGED <<dep_vars, rcall, health_vars, thread_vars>>

LoadAppIds == {"A", "B"}

LoadServiceArgs ==
    {ServiceInfo(app_id, "1", app_id, MinPort) : app_id \in LoadAppIds}

\* an allocator and a registry, each constructed on a file that is missing
\* or damaged
InitLoad ==
    /\ storage_file \in {[state |-> "missing", data |-> EmptyTable],
                         [state |-> "corrupt", data |-> EmptyTable]}
    /\ port_assignments = _load_port_assignments
    /\ reserved_ports = {}
    /\ bound_ports = {}
    /\ reloaded = FALSE
    /\ call = NoCall
    /\ SnapIdle
    /\ FlaskIdle
    /\ ConfigIdle
    /\ services_file \in
           {[state |-> state, data |-> {}] :
               state \in {"missing"} \cup DamagedFiles}
    /\ services = _load_services.services
    /\ registry_up = ~_load_services.raised
    /\ dep_pc = "idle"
    /\ graph = EmptyTable
    /\ no_deps = {}
    /\ result = <<>>
    /\ order = <<>>
    /\ rcall = NoRCall
    /\ HealthIdle
    /\ stop_health_check = FALSE
    /\ workers = <<>>
    /\ interval_over = FALSE
    /\ hc_current = NoCheck
    /\ close_pc = "idle"

NextLoad ==
    \/ RegistryConstruct /\ UNCHANGED not_thread_vars
    \/ \E state \in {"missing"} \cup DamagedFiles :
           EnvDamage(state) /\ UNCHANGED not_thread_vars
    \/ \E service \in LoadServiceArgs :
           /\ registry_up
           /\ RegisterServiceCall(service)
           /\ UNCHANGED not_registry_vars
    \/ \E app_id \in LoadAppIds :
           /\ registry_up
           /\ UnregisterServiceCall(app_id, "1")
           /\ UNCHANGED not_registry_vars
    \/ \E app_id \in AppIds :
           allocate_port(app_id, None) /\ UNCHANGED not_alloc_vars
    \/ Construct({}) /\ UNCHANGED not_alloc_vars

SpecLoad == InitLoad /\ [][NextLoad]_vars

----------------------------------------------------------------------------
(* ConfigManager (dynaport/config_manager.py)                              *)

\* the values of a loaded YAML tree: a scalar, a list, or a mapping from
\* keys to values; a tree is the mapping at the top, key -> value
Scalar(n) == [kind |-> "scalar", v |-> n]
List(l) == [kind |-> "list", v |-> l]
Map(m) == [kind |-> "map", v |-> m]

isinstance_dict(value) == value.kind = "map"

RECURSIVE _merge_config(_, _)

_merge_config_update(base, override) ==
    [key \in DOMAIN base \cup DOMAIN override |->
        IF key \in DOMAIN override THEN override[key] ELSE base[key]]

\* _merge_config(base, override): base as the loop over override.items()
\* leaves it
_merge_config(base, override) ==
    [key \in DOMAIN base \cup DOMAIN override |->
        IF key \notin DOMAIN override THEN base[key]
        ELSE IF /\ key \in DOMAIN base
                /\ isinstance_dict(base[key])
                /\ isinstance_dict(override[key])
        THEN Map(_merge_config(base[key].v, override[key].v))
        ELSE override[key]]

CCall(op, app_id, instance_id, base, override) ==
    [op |-> op, app_id |-> app_id, instance_id |-> instance_id,
     base |-> base, override |-> override]

\* one call _merge_config(base, override) on the tree drawn as base
MergeConfigCall(override) ==
    /\ ccall.op = "init"
    /\ config' = _merge_config(config, override)
    /\ ccall' = CCall("_merge_config", "", "", config, override)
    /\ UNCHANGED <<config_files, app_config>>

\* trees of two levels: scalars and lists as leaves, mappings of leaves
MergeLeaves == {Scalar(1), Scalar(2), List(<<1>>), List(<<1, 2>>)}

MergeMaps == UNION {[D -> MergeLeaves] : D \in SUBSET {"x", "y"}}

MergeValues == MergeLeaves \cup {Map(m) : m \in MergeMaps}

\* key "a" holds any value, key "b" a leaf
MergeTrees ==
    {tree \in UNION {[D -> MergeValues] : D \in SUBSET {"a", "b"}} :
        "b" \in DOMAIN tree => tree["b"] \in MergeLeaves}

InitMerge ==
    /\ AllocIdle
    /\ SnapIdle
    /\ FlaskIdle
    /\ RegistryIdle
    /\ config \in MergeTrees
    /\ config_files = EmptyTable
    /\ app_config = EmptyTable
    /\ ccall = NoCCall

NextMerge ==
    \E override \in MergeTrees :
        MergeConfigCall(override) /\ UNCHANGED not_config_vars

SpecMerge == InitMerge /\ [][NextMerge]_vars

\* ConfigManager(config_dir): environment = "development"
environment == "development"

\* _load_config(name): the tree of the file, {} when there is none
_load_config(name) ==
    IF name \in DOMAIN config_files THEN config_files[name] ELSE EmptyTable

\* __init__: the tree of default.yaml with that of the environment merged
\* into it
ConfigManager_config ==
    _merge_config(_load_config("default"), _load_config(environment))

\* app_config = self.config.copy(): a new top-level dict whose values are
\* the objects self.config holds. shared is the set of keys under which
\* both still hold the one dict object
Copied(tree) ==
    [app |-> tree, config |-> tree,
     shared |-> {key \in DOMAIN tree : isinstance_dict(tree[key])}]

\* the key's value in app_config is merged in place, not assigned
MergedInPlace(tree, layer, key) ==
    /\ key \in DOMAIN tree
    /\ key \in DOMAIN layer
    /\ isinstance_dict(tree[key])
    /\ isinstance_dict(layer[key])

\* "if layer: self._merge_config(app_config, layer)": a dict merged in
\* place under a shared key is changed for self.config as well, a key
\* assigned in app_config is no longer shared
merge_layer(st, layer) ==
    IF layer = EmptyTable THEN st
    ELSE LET merged == _merge_config(st.app, layer) IN
         [app |-> merged,
          config |->
              [key \in DOMAIN st.config |->
                  IF key \in st.shared /\ MergedInPlace(st.app, layer, key)
                  THEN merged[key] ELSE st.config[key]],
          shared |->
              {key \in st.shared :
                  key \in DOMAIN layer => MergedInPlace(st.app, layer, key)}]

RECURSIVE merge_layers(_, _)

merge_layers(st, layers) ==
    IF layers = <<>> THEN st
    ELSE merge_layers(merge_layer(st, Head(layers)), Tail(layers))

\* the files get_app_config loads, in the order it merges them
app_layers(app_id, instance_id) ==
    <<_load_config("app_" \o app_id),
      _load_config("app_" \o app_id \o "_" \o environment)>> \o
    ( IF instance_id # ""
      THEN <<_load_config("instance_" \o app_id \o "_" \o instance_id),
             _load_config("instance_" \o app_id \o "_" \o instance_id
                          \o "_" \o environment)>>
      ELSE <<>> )

\* get_app_config: what it returns (app) and what it leaves as self.config
get_app_config(app_id, instance_id) ==
    merge_layers(Copied(config), app_layers(app_id, instance_id))

GetAppConfigCall(app_id, instance_id) ==
    /\ app_config' = get_app_config(app_id, instance_id).app
    /\ config' = get_app_config(app_id, instance_id).config
    /\ ccall' = CCall("get_app_config", app_id, instance_id, config,
                      EmptyTable)
    /\ UNCHANGED config_files

\* get_config_value(key_path, default) for a path of one or two keys, on
\* self.config: the value under the keys, default when a key is missing or
\* the value above it is no mapping
get_config_value(keys, default) ==
    IF keys[1] \notin DOMAIN config THEN default
    ELSE IF Len(keys) = 1 THEN config[keys[1]]
    ELSE IF ~ isinstance_dict(config[keys[1]]) THEN default
    ELSE IF keys[2] \notin DOMAIN config[keys[1]].v THEN default
    ELSE config[keys[1]].v[keys[2]]

\* key paths asked of get_config_value: "a", "a.x", "a.y", "b"
KeyPaths == {<<"a">>, <<"a", "x">>, <<"a", "y">>, <<"b">>}

\* the files of config_dir, and the trees a file may hold: nothing, or
\* under the key "a" a scalar or a mapping of one key, with the scalar n
FileNames ==
    <<"default", "development", "app_A", "app_A_development",
      "instance_A_1", "instance_A_1_development", "app_B">>

FileShapes == {"none", "scalar", "x", "y"}

FileTree(shape, n) ==
    CASE shape = "none" -> EmptyTable
      [] shape = "scalar" -> [a |-> Scalar(n)]
      [] shape = "x" -> [a |-> Map([x |-> Scalar(n)])]
      [] shape = "y" -> [a |-> Map([y |-> Scalar(n)])]

ConfigDirs ==
    {[name \in {FileNames[n] : n \in DOMAIN FileNames} |->
        LET n == CHOOSE i \in DOMAIN FileNames : FileNames[i] = name
        IN  FileTree(shapes[n], n)] :
     shapes \in [DOMAIN FileNames -> FileShapes]}

ConfigAppIds == {"A", "B"}
ConfigInstanceIds == {"", "1"}

\* ConfigManager(config_dir) on the files as they are
InitConfig ==
    /\ AllocIdle
    /\ SnapIdle
    /\ FlaskIdle
    /\ RegistryIdle
    /\ config_files \in ConfigDirs
    /\ config = ConfigManager_config
    /\ app_config = EmptyTable
    /\ ccall = NoCCall

NextConfig ==
    \E app_id \in ConfigAppIds, instance_id \in ConfigInstanceIds :
        GetAppConfigCall(app_id, instance_id) /\ UNCHANGED not_config_vars

SpecConfig == InitConfig /\ [][NextConfig]_vars

----------------------------------------------------------------------------
(* DynaPortFlask (dynaport/flask_integration.py) on the allocator, the     *)
(* registry and the config manager it is given                             *)

\* app_id and instance_id of the one DynaPortFlask object, and the key
\* f"{self.app_id}:{self.instance_id}" it hands to the allocator
FlaskAppId == "A"
FlaskInstanceId == "1"
FlaskKey == FlaskAppId \o ":" \o FlaskInstanceId

\* the position of the object's caller after a method, and which call it was
FlaskAt(pc, last) ==
    [flask EXCEPT !.pc = pc, !.last = last, !.calls = 1 - flask.calls]

\* __init__ up to self.app = None: get_app_config, then allocate_port under
\* the key; a RuntimeError of allocate_port leaves no object
FlaskInitAllocate(preferred_port) ==
    /\ flask.pc \in {"none", "raised"}
    /\ GetAppConfigCall(FlaskAppId, FlaskInstanceId)
    /\ allocate_port(FlaskKey, preferred_port)
    /\ flask' = IF call'.ret = RuntimeError
                THEN [FlaskAt("raised", "init_allocate") EXCEPT
                         !.port = None, !.app = FALSE]
                ELSE [FlaskAt("allocated", "init_allocate") EXCEPT
                         !.port = call'.ret, !.app = FALSE]
    /\ UNCHANGED <<snapshot, registry_vars, thread_vars>>

\* the ServiceInfo _register_service builds
FlaskServiceInfo ==
    [ServiceInfo(FlaskAppId, FlaskInstanceId, FlaskAppId, flask.port) EXCEPT
        !.status = "starting", !.health_endpoint = "/health"]

\* the end of __init__: _register_service
FlaskInitRegister ==
    /\ flask.pc = "allocated"
    /\ RegisterServiceCall(FlaskServiceInfo)
    /\ flask' = FlaskAt("ready", "init_register")
    /\ UNCHANGED <<alloc_vars, snapshot, thread_vars, config_vars>>

\* wrap_app(app): self.app = app, the health endpoint and the blueprint on
\* the app, status "running"
FlaskWrapApp ==
    /\ flask.pc = "ready"
    /\ UpdateServiceStatusCall(FlaskAppId, FlaskInstanceId, "running")
    /\ flask' = [FlaskAt("ready", "wrap_app") EXCEPT !.app = TRUE]
    /\ UNCHANGED <<alloc_vars, snapshot, thread_vars, config_vars>>

\* run_app(app) up to app.run: ValueError before the try when neither the
\* argument nor self.app is an application
FlaskRunAppBegin(app) ==
    /\ flask.pc = "ready"
    /\ flask' = IF app \/ flask.app
                THEN FlaskAt("running", "run_app")
                ELSE FlaskAt("ready", "run_app_ValueError")
    /\ UNCHANGED <<alloc_vars, snapshot, registry_vars, thread_vars,
                   config_vars>>

FlaskRunAppEnd_no_finally(outcome) ==
    /\ flask.pc = "running"
    /\ IF outcome = "returns"
       THEN UpdateServiceStatusCall(FlaskAppId, FlaskInstanceId, "stopped")
       ELSE UNCHANGED registry_vars
    /\ flask' = FlaskAt("ready", "run_app_" \o outcome)
    /\ UNCHANGED <<alloc_vars, snapshot, thread_vars, config_vars>>

\* app.run ends, by returning or by raising: the finally block of run_app
FlaskRunAppEnd(outcome) ==
    /\ flask.pc = "running"
    /\ UpdateServiceStatusCall(FlaskAppId, FlaskInstanceId, "stopped")
    /\ flask' = FlaskAt("ready", "run_app_" \o outcome)
    /\ UNCHANGED <<alloc_vars, snapshot, thread_vars, config_vars>>

\* shutdown, its first statement: status "stopped"
FlaskShutdownStatus ==
    /\ flask.pc = "ready"
    /\ UpdateServiceStatusCall(FlaskAppId, FlaskInstanceId, "stopped")
    /\ flask' = FlaskAt("stopped", "shutdown_status")
    /\ UNCHANGED <<alloc_vars, snapshot, thread_vars, config_vars>>

\* shutdown, its second statement: release_port of the key
FlaskShutdownRelease ==
    /\ flask.pc = "stopped"
    /\ release_port(FlaskKey)
    /\ flask' = FlaskAt("ready", "shutdown_release")
    /\ UNCHANGED <<snapshot, registry_vars, thread_vars, config_vars>>

\* the directories of the config manager the object is given: default.yaml
\* and app_A.yaml both empty, or both with a mapping under "a"
FlaskConfigDirs ==
    {[name \in {"default", "app_A"} |->
        FileTree(shape, IF name = "default" THEN 1 ELSE 3)] :
     shape \in {"none", "x"}}

\* an allocator and a registry on missing files, a config manager on its
\* directory, no DynaPortFlask object yet
InitFlask ==
    /\ AllocIdle
    /\ SnapIdle
    /\ FlaskIdle
    /\ RegistryIdle
    /\ config_files \in FlaskConfigDirs
    /\ config = ConfigManager_config
    /\ app_config = EmptyTable
    /\ ccall = NoCCall

\* the object's methods in any order after construction, another
\* application's allocate_port, and other processes' sockets
NextFlask ==
    \/ \E preferred_port \in PreferredArgs :
           FlaskInitAllocate(preferred_port)
    \/ FlaskInitRegister
    \/ FlaskWrapApp
    \/ \E app \in BOOLEAN : FlaskRunAppBegin(app)
    \/ \E outcome \in {"returns", "raises"} : FlaskRunAppEnd(outcome)
    \/ FlaskShutdownStatus
    \/ FlaskShutdownRelease
    \/ allocate_port("svc:1", None) /\ UNCHANGED not_alloc_vars
    \/ \E port \in RangePorts : EnvBind(port) /\ UNCHANGED not_alloc_vars
    \/ \E port \in RangePorts : EnvClose(port) /\ UNCHANGED not_alloc_vars

SpecFlask == InitFlask /\ [][NextFlask]_vars

----------------------------------------------------------------------------
(* Properties of the allocator, checked under Spec                         *)

\* the file as json.dump leaves it for the given table
Persisted(table) == [state |-> "ok", data |-> table]

\* port probes free: not reserved and bindable
Free(port) == port \notin reserved_ports /\ port \notin bound_ports

\* the step is the call allocate_port(app_id, preferred_port)
AllocateCall(app_id, preferred_port) ==
    /\ call'.op = "allocate_port"
    /\ call'.app_id = app_id
    /\ call'.port = preferred_port
    /\ allocate_port(app_id, preferred_port)

\* the step is the call release_port(app_id)
ReleaseCall(app_id) ==
    /\ call'.op = "release_port"
    /\ call'.app_id = app_id
    /\ release_port(app_id)

AllocateStep == \E app_id \in AppIds, preferred_port \in PreferredArgs :
                    AllocateCall(app_id, preferred_port)

ReleaseStep == \E app_id \in AppIds : ReleaseCall(app_id)

\* C1: in one allocator no two distinct keys of the assignment table map to
\* the same port, after any sequence of allocate, release, reserve and
\* unreserve calls.
C1_NoPortForTwoKeys ==
    \A a, b \in DOMAIN port_assignments :
        a # b => port_assignments[a] # port_assignments[b]

\* C2: with range (8000,8002), no reservations, an empty table and all ports
\* free, allocate("svc:1") on the first allocator returns a port of the range,
\* and allocate("svc:2") on a second allocator constructed on the same file
\* after that write returns a port different from the one of "svc:1".
C2_SecondAllocatorGetsAnotherPort ==
    [][ /\ ( /\ reloaded = FALSE
             /\ port_assignments = EmptyTable
             /\ reserved_ports = {}
             /\ bound_ports = {}
             /\ AllocateCall("svc:1", None) )
           => call'.ret \in RangePorts
        /\ ( /\ reloaded = TRUE
             /\ call.op = "construct"
             /\ DOMAIN port_assignments = {"svc:1"}
             /\ storage_file = Persisted(port_assignments)
             /\ reserved_ports = {}
             /\ bound_ports = {}
             /\ AllocateCall("svc:2", None) )
           => call'.ret # port_assignments["svc:1"] ]_vars

\* C3: allocate(key) right after an allocate(key) that returned a port which
\* still probes available returns the same port and leaves the table as it
\* is, whatever preferred port the second call passes.
C3_AllocateTwiceSamePort ==
    [][ \A app_id \in AppIds, preferred_port \in PreferredArgs :
          ( /\ call.op = "allocate_port"
            /\ call.app_id = app_id
            /\ call.ret # RuntimeError
            /\ Free(call.ret)
            /\ AllocateCall(app_id, preferred_port) )
          => ( /\ call'.ret = call.ret
               /\ port_assignments' = port_assignments ) ]_vars

\* the second of two allocate calls in a row passed a usable preferred port
\* other than the assigned one and still got the assigned one
C3_Witness ==
    /\ call.op = "allocate_port"
    /\ call.repeat
    /\ call.path = "assigned"
    /\ call.port \in RangePorts
    /\ call.port # call.ret
    /\ Free(call.port)
    /\ port_assignments[call.app_id] = call.ret

\* C7: is_port_available(port) is false for every reserved port whatever the
\* socket state, also for a port reserved by reserve_port after construction;
\* for a port that is not reserved (so after unreserve_port) the bind probe
\* alone decides.
C7_ReservedNeverAvailable ==
    [][ \A port \in ProbeArgs :
          ( call'.op = "is_port_available" /\ IsPortAvailableCall(port) ) =>
            /\ port \in reserved_ports => call'.avail = FALSE
            /\ port \notin reserved_ports =>
                   call'.avail = (port \notin bound_ports)
            /\ ( call.op = "unreserve_port" /\ call.port = port ) =>
                   call'.avail = (port \notin bound_ports) ]_vars

\* a port that only reserve_port can have reserved, with no socket on it,
\* was reported unavailable
C7_Witness ==
    /\ call.op = "is_port_available"
    /\ call.port \in reserved_ports
    /\ call.port \notin UNION ReservedArgs
    /\ call.port \notin bound_ports
    /\ call.avail = FALSE

\* C8: find_available_port raises RuntimeError exactly when no port of the
\* range is both unreserved and bindable; otherwise it returns a port.
C8_FindRaisesIffExhausted ==
    [][ ( call'.op = "find_available_port" /\ FindAvailablePortCall ) =>
          /\ call'.ret = RuntimeError <=>
                 ~ \E p \in RangePorts : Free(p)
          /\ call'.ret # RuntimeError =>
                 call'.ret \in RangePorts /\ Free(call'.ret) ]_vars

\* find_available_port raised on a range exhausted partly by reservations
\* and partly by bound sockets
C8_Witness ==
    /\ call.op = "find_available_port"
    /\ call.ret = RuntimeError
    /\ \A p \in RangePorts : ~ Free(p)
    /\ \E p \in RangePorts : p \in reserved_ports /\ p \notin bound_ports
    /\ \E p \in RangePorts : p \in bound_ports /\ p \notin reserved_ports

\* C9: when the key has no assignment, or its port no longer probes available,
\* a preferred port that is in range and probes available is assigned and
\* returned; a preferred port outside the range or unavailable is never
\* assigned by the preferred path and the call falls back to
\* find_available_port.
C9_PreferredPort ==
    [][ \A app_id \in AppIds, preferred_port \in PreferredArgs \ {None} :
          ( /\ \/ app_id \notin DOMAIN port_assignments
               \/ ~ Free(port_assignments[app_id])
            /\ AllocateCall(app_id, preferred_port) )
          => IF preferred_port \in RangePorts /\ Free(preferred_port)
             THEN /\ call'.ret = preferred_port
                  /\ call'.path = "preferred"
                  /\ app_id \in DOMAIN port_assignments'
                  /\ port_assignments'[app_id] = preferred_port
             ELSE /\ call'.path \in {"find", "raise"}
                  /\ call'.ret # preferred_port
                  /\ call'.ret = RuntimeError
                       \/ ( /\ call'.ret \in RangePorts
                            /\ Free(call'.ret)
                            /\ port_assignments'[app_id] = call'.ret )
                  /\ call'.ret = RuntimeError =>
                         port_assignments' = port_assignments ]_vars

\* a key was assigned the in-range preferred port it asked for, and the
\* file holds the new table
C9_Witness ==
    /\ call.op = "allocate_port"
    /\ call.path = "preferred"
    /\ call.ret = call.port
    /\ call.port \in RangePorts
    /\ port_assignments[call.app_id] = call.port
    /\ storage_file = Persisted(port_assignments)

\* C10 as stated: after every allocate or release call that returns normally
\* the storage file holds exactly the in-memory table.
C10_FileHoldsTableAfterEveryCall ==
    [][ ( (AllocateStep \/ ReleaseStep) /\ call'.ret # RuntimeError )
          => storage_file' = Persisted(port_assignments') ]_vars

\* C10 amended: after every allocate or release call that returns normally
\* and changed the in-memory table the storage file holds exactly the table;
\* the calls that change nothing (allocate returning the existing assignment,
\* release of an absent key) leave the file as it is.
C10_FileHoldsTableAfterEveryChange ==
    [][ ( (AllocateStep \/ ReleaseStep) /\ call'.ret # RuntimeError )
          => /\ port_assignments' # port_assignments =>
                    storage_file' = Persisted(port_assignments')
             /\ port_assignments' = port_assignments =>
                    storage_file' = storage_file ]_vars

\* a release removed one of two entries and the file holds the reduced table
C10_Witness ==
    /\ call.op = "release_port"
    /\ call.path = "removed"
    /\ port_assignments # EmptyTable
    /\ call.app_id \notin DOMAIN port_assignments
    /\ storage_file = Persisted(port_assignments)

\* C11: a new allocator constructed on the file a previous allocator wrote
\* starts with the previous allocator's final table, and allocate(key) on it
\* returns the port the file holds for key whenever that port still probes
\* available.
C11_NewAllocatorKeepsAssignments ==
    [][ /\ ( /\ call'.op = "construct"
             /\ storage_file.state = "ok"
             /\ \E reserved \in ReservedArgs : Construct(reserved) )
           => port_assignments' = port_assignments
        /\ \A app_id \in AppIds, preferred_port \in PreferredArgs :
             ( /\ call.op = "construct"
               /\ storage_file.state = "ok"
               /\ app_id \in DOMAIN storage_file.data
               /\ Free(storage_file.data[app_id])
               /\ AllocateCall(app_id, preferred_port) )
             => ( /\ call'.ret = storage_file.data[app_id]
                  /\ port_assignments' = storage_file.data ) ]_vars

\* a later allocator has just been constructed on a file holding entries for
\* both keys and holds that table
C11_Witness ==
    /\ call.op = "construct"
    /\ reloaded
    /\ storage_file.state = "ok"
    /\ DOMAIN storage_file.data = AppIds
    /\ port_assignments = storage_file.data

\* C12: release(key) for an assigned key removes exactly that entry:
\* get_assigned_port(key) is absent afterwards, every other key keeps its
\* port, and the file holds the reduced table.
C12_ReleaseRemovesOnlyThatKey ==
    [][ \A app_id \in AppIds :
          ( app_id \in DOMAIN port_assignments /\ ReleaseCall(app_id) )
          => /\ get_assigned_port(app_id)' = None
             /\ DOMAIN port_assignments' = DOMAIN port_assignments \ {app_id}
             /\ \A k \in DOMAIN port_assignments \ {app_id} :
                    get_assigned_port(k)' = port_assignments[k]
             /\ storage_file' = Persisted(port_assignments') ]_vars

\* one of two assigned keys was released and the other still has its port
C12_Witness ==
    /\ call.op = "release_port"
    /\ call.path = "removed"
    /\ get_assigned_port(call.app_id) = None
    /\ \E k \in AppIds \ {call.app_id} : get_assigned_port(k) \in RangePorts
    /\ storage_file.data = port_assignments

\* C13: release(key) for a key without assignment raises nothing and leaves
\* the in-memory table as it is.
C13_ReleaseOfAbsentKeyIsNoOp ==
    [][ \A app_id \in AppIds :
          ( app_id \notin DOMAIN port_assignments /\ ReleaseCall(app_id) )
          => /\ call'.ret # RuntimeError
             /\ port_assignments' = port_assignments
             /\ storage_file' = storage_file ]_vars

\* an unassigned key was released while the other key holds a port
C13_Witness ==
    /\ call.op = "release_port"
    /\ call.path = "absent"
    /\ call.ret = None
    /\ call.app_id \notin DOMAIN port_assignments
    /\ port_assignments # EmptyTable

----------------------------------------------------------------------------
(* Properties of get_all_assignments, checked under SpecSnap               *)

\* the step is the caller adding, changing or removing an entry of the map
\* it got from get_all_assignments
CallerStep ==
    /\ snapshot' # snapshot
    /\ call' = call
    /\ \/ \E key \in CallerKeys, port \in CallerPorts : CallerSets(key, port)
       \/ \E key \in CallerKeys : CallerDeletes(key)

\* C14: get_all_assignments returns the entries of the table, and adding,
\* changing or removing entries of the returned map changes neither the
\* allocator's table nor what get_assigned_port returns.
C14_GetAllReturnsACopy ==
    [][ /\ ( call'.op = "get_all_assignments" /\ GetAllAssignmentsCall )
           => ( snapshot'.data = port_assignments
                /\ port_assignments' = port_assignments )
        /\ CallerStep
           => ( /\ port_assignments' = port_assignments
                /\ \A app_id \in CallerKeys :
                       get_assigned_port(app_id)' = get_assigned_port(app_id)
                /\ storage_file' = storage_file ) ]_vars

\* the caller added a key to the map it got and changed or removed an entry
\* of it, and the allocator's table has neither change
C14_Witness ==
    /\ call.op = "get_all_assignments"
    /\ snapshot.held
    /\ "svc:3" \in DOMAIN snapshot.data
    /\ "svc:3" \notin DOMAIN port_assignments
    /\ \E k \in DOMAIN port_assignments :
           k \notin DOMAIN snapshot.data
           \/ snapshot.data[k] # port_assignments[k]

----------------------------------------------------------------------------
(* Properties of get_dependency_order, checked under SpecDep               *)

Registered == DOMAIN services

\* the services listed in some layer of the returned order
Listed == UNION {order[i] : i \in 1..Len(order)}

LayersOf(service_id) == {i \in 1..Len(order) : service_id \in order[i]}

LayerOf(service_id) == CHOOSE i \in 1..Len(order) : service_id \in order[i]

DepsOf(service_id) ==
    IF service_id \in Registered THEN services[service_id].dependencies ELSE {}

RECURSIVE Closure(_, _)
Closure(S, n) ==
    IF n = 0 THEN S ELSE Closure(S \cup UNION {DepsOf(t) : t \in S}, n - 1)

\* everything service_id depends on, directly or through other services
TransitiveDeps(service_id) ==
    Closure(DepsOf(service_id), Cardinality(ServiceIds))

OnCycle(service_id) == service_id \in TransitiveDeps(service_id)

DependsOnCycle(service_id) ==
    \E t \in {service_id} \cup TransitiveDeps(service_id) : OnCycle(t)

Max(S) == CHOOSE x \in S : \A y \in S : y <= x

\* C4: a dependency on an unregistered id does not block the dependent: a
\* registered service whose dependencies are each unregistered or listed in
\* a layer appears in a layer of the result.
C4_UnregisteredDependencyDoesNotBlock ==
    dep_pc = "returned" =>
        \A service_id \in Registered :
            ( \A dep \in services[service_id].dependencies :
                  dep \notin Registered \/ dep \in Listed )
            => service_id \in Listed

\* C5: when every dependency names a registered service and there is no
\* cycle, every registered service is in exactly one layer, the first layer
\* is the services without dependencies, and every other service is in the
\* layer right after the latest layer holding one of its dependencies.
C5_LayersOfAcyclicTable ==
    ( /\ dep_pc = "returned"
      /\ \A service_id \in Registered : services[service_id].dependencies \subseteq Registered
      /\ \A service_id \in Registered : ~ OnCycle(service_id) )
    => /\ Listed = Registered
       /\ \A service_id \in Registered :
              Cardinality(LayersOf(service_id)) = 1
       /\ \A service_id \in Registered :
              IF services[service_id].dependencies = {}
              THEN LayerOf(service_id) = 1
              ELSE LayerOf(service_id) =
                     1 + Max({LayerOf(dep) : dep \in services[service_id].dependencies})

\* A without dependencies, B on A, C on A and B gave [{A}, {B}, {C}]
C5_Witness ==
    /\ dep_pc = "returned"
    /\ DOMAIN services = {"A:1", "B:1", "C:1"}
    /\ services["A:1"].dependencies = {}
    /\ services["B:1"].dependencies = {"A:1"}
    /\ services["C:1"].dependencies = {"A:1", "B:1"}
    /\ order = << {"A:1"}, {"B:1"}, {"C:1"} >>

\* C6: get_dependency_order ends without raising on every service table
\* (every pass adds a layer, so there are at most as many passes as
\* services); the services on a cycle and those depending on one are in no
\* layer, and every other service is in a layer.
C6_CyclesAreLeftOutOthersListed ==
    /\ dep_pc # "raised"
    /\ Len(result) <= Cardinality(Registered)
    /\ dep_pc = "returned" =>
           \A service_id \in Registered :
               service_id \in Listed <=> ~ DependsOnCycle(service_id)

----------------------------------------------------------------------------
(* Properties of the registry's table, checked under SpecReg               *)

RegisterStep(info) ==
    /\ rcall'.op = "register_service"
    /\ rcall'.service = info
    /\ RegisterServiceCall(info)

UnregisterStep(app_id, instance_id) ==
    /\ rcall'.op = "unregister_service"
    /\ rcall'.app_id = app_id
    /\ rcall'.instance_id = instance_id
    /\ UnregisterServiceCall(app_id, instance_id)

UpdateStatusStep(app_id, instance_id, status) ==
    /\ rcall'.op = "update_service_status"
    /\ rcall'.app_id = app_id
    /\ rcall'.instance_id = instance_id
    /\ rcall'.status = status
    /\ UpdateServiceStatusCall(app_id, instance_id, status)

\* the records of the list that carry the given service id
RecordsOf(all_services, key) ==
    {r \in BagToSet(all_services) : ServiceInfo_service_id(r) = key}

\* C15: right after register_service(info), get_service(info.app_id,
\* info.instance_id) is a record equal to info in every field; and a
\* register_service of a service id the table does not hold makes
\* get_all_services one record longer, so N registrations of pairwise
\* distinct ids into the empty registry leave exactly N records.
C15_RegisterThenGet ==
    [][\A info \in RegServiceArgs :
          RegisterStep(info) =>
              /\ get_service(info.app_id, info.instance_id)' = info
              /\ \A f \in DOMAIN info :
                     get_service(info.app_id, info.instance_id)'[f] = info[f]
              /\ ServiceInfo_service_id(info) \notin DOMAIN services =>
                     BagCardinality(get_all_services') =
                         BagCardinality(get_all_services) + 1]_vars

\* three services of pairwise distinct ids are registered and listed
C15_Witness ==
    /\ rcall.op = "register_service"
    /\ rcall.path = "new"
    /\ BagCardinality(get_all_services) = 3
    /\ get_service(rcall.app_id, rcall.instance_id) = rcall.service

\* C16: register_service of a service id the table already holds replaces
\* the record: afterwards the list holds exactly one record of that id, it
\* is the registered one in every field, the number of records is the same
\* and the records of the other ids are as before.
C16_RegisterReplaces ==
    [][\A info \in RegServiceArgs :
          (RegisterStep(info)
              /\ ServiceInfo_service_id(info) \in DOMAIN services) =>
              /\ RecordsOf(get_all_services', ServiceInfo_service_id(info))
                     = {info}
              /\ CopiesIn(info, get_all_services') = 1
              /\ BagCardinality(get_all_services') =
                     BagCardinality(get_all_services)
              /\ DOMAIN services' = DOMAIN services
              /\ \A k \in DOMAIN services \ {ServiceInfo_service_id(info)} :
                     services'[k] = services[k]]_vars

\* a record registered under app_id "A" was replaced by one registered under
\* app_id "A:1" with the same service id and other field values
C16_Witness ==
    /\ rcall.op = "register_service"
    /\ rcall.path = "replaced"
    /\ rcall.service.app_id = "A:1"
    /\ rcall.service.health_status = "unknown"
    /\ get_service("A", "1:1") = rcall.service
    /\ BagCardinality(get_all_services) = 2

\* C17: unregister_service(app_id, instance_id) takes the record of that
\* service id out of the table and leaves every other record as it was; when
\* the table holds no such record, table and file stay as they are.
C17_UnregisterRemovesOnlyThatRecord ==
    [][\A app_id \in RegAppIds, instance_id \in RegInstanceIds :
          UnregisterStep(app_id, instance_id) =>
              /\ DOMAIN services' =
                     DOMAIN services \ {service_key(app_id, instance_id)}
              /\ \A k \in DOMAIN services' : services'[k] = services[k]
              /\ get_service(app_id, instance_id)' = NoService
              /\ service_key(app_id, instance_id) \notin DOMAIN services =>
                     /\ services' = services
                     /\ services_file' = services_file]_vars

\* one record was removed and two others are still registered
C17_Witness ==
    /\ rcall.op = "unregister_service"
    /\ rcall.path = "removed"
    /\ Cardinality(DOMAIN services) = 2

\* C18: update_service_status(app_id, instance_id, status) on a registered
\* service sets the status of that record and changes no other field of it
\* and no other record; on a service that is not registered it leaves the
\* table as it is and creates no record.
C18_UpdateStatusChangesOnlyStatus ==
    [][\A app_id \in RegAppIds, instance_id \in RegInstanceIds,
          status \in StatusArgs :
          UpdateStatusStep(app_id, instance_id, status) =>
              LET key == service_key(app_id, instance_id) IN
              /\ DOMAIN services' = DOMAIN services
              /\ \A k \in DOMAIN services \ {key} :
                     services'[k] = services[k]
              /\ key \in DOMAIN services =>
                     /\ services'[key].status = status
                     /\ \A f \in DOMAIN services[key] \ {"status"} :
                            services'[key][f] = services[key][f]
              /\ key \notin DOMAIN services => services' = services]_vars

\* the status of a healthy, checked record was changed next to another record
C18_Witness ==
    /\ rcall.op = "update_service_status"
    /\ rcall.path = "updated"
    /\ Cardinality(DOMAIN services) >= 2
    /\ LET service == get_service(rcall.app_id, rcall.instance_id) IN
           /\ service.status = "stopped"
           /\ service.health_status = "healthy"
           /\ service.last_health_check = Earlier

----------------------------------------------------------------------------
(* Properties of the health checks, checked under SpecHealth               *)

\* the worker's cycle checks the snapshot's service of the application
CycleCheckStep(app_id, outcome) ==
    /\ rcall'.op = "_check_all_services_health"
    /\ rcall'.app_id = app_id
    /\ CheckAllServicesHealthCheck(service_key(app_id, "1"), outcome)

\* a foreground caller checks the application's registered service
DirectCheckStep(app_id, outcome) ==
    /\ rcall'.op = "_check_service_health"
    /\ rcall'.app_id = app_id
    /\ CheckServiceHealthCall(app_id, "1", outcome)

HttpWithEndpoint(service) ==
    service.health_check_type = "http" /\ service.health_endpoint # ""

\* C19: when the check of one service of a cycle raises, that service is
\* marked unhealthy with last_health_check stamped, the cycle goes on with
\* the snapshot it had, and the worker leaves a cycle only when every
\* service of the snapshot has been checked in it.
C19_FailureDoesNotStopTheCycle ==
    [][/\ \A app_id \in HealthAppIds, outcome \in Outcomes :
             LET key == service_key(app_id, "1") IN
             ( /\ rcall'.outcome = outcome
               /\ CycleCheckStep(app_id, outcome)
               /\ _check_service_health(hc_snapshot[key].service,
                                         outcome).raised ) =>
                 /\ hc_snapshot'[key].service.health_status = "unhealthy"
                 /\ hc_snapshot'[key].service.last_health_check = now
                 /\ services'[key] = hc_snapshot'[key].service
                 /\ hc_pc' = "cycle"
                 /\ DOMAIN hc_snapshot' = DOMAIN hc_snapshot
                 /\ DOMAIN hc_checked' = DOMAIN hc_checked \cup {key}
                 /\ \A k \in DOMAIN hc_snapshot \ {key} :
                        hc_snapshot'[k] = hc_snapshot[k]
       /\ (hc_pc = "cycle" /\ hc_pc' # "cycle") =>
              DOMAIN hc_checked = DOMAIN hc_snapshot]_vars

\* in one cycle the check of one service raised and was caught, and the
\* other service was checked after it and found healthy
C19_Witness ==
    /\ hc_pc = "cycle"
    /\ rcall.op = "_check_all_services_health"
    /\ rcall.outcome = "ok"
    /\ \E a \in DOMAIN hc_checked, b \in DOMAIN hc_checked :
           /\ hc_checked[a] = "caught"
           /\ hc_checked[b] = "returned"
           /\ rcall.app_id = hc_snapshot[b].service.app_id
           /\ a \in DOMAIN services
           /\ services[a].health_status = "unhealthy"
           /\ services[a].last_health_check = now
           /\ b \in DOMAIN services
           /\ services[b].health_status = "healthy"

\* C20: a check of an http service with a health_endpoint, made by the
\* cycle or by a direct call, leaves health_status healthy when the GET
\* returned status 200 and unhealthy when it returned another status or
\* raised a request error, and sets last_health_check in all three cases.
C20_HttpCheck ==
    [][\A app_id \in HealthAppIds, outcome \in {"ok", "fail", "error"} :
          LET key == service_key(app_id, "1") IN
          /\ ( /\ rcall'.outcome = outcome
               /\ DirectCheckStep(app_id, outcome)
               /\ HttpWithEndpoint(services[key]) ) =>
                 /\ services'[key].health_status = "healthy" <=>
                        outcome = "ok"
                 /\ services'[key].health_status = "unhealthy" <=>
                        outcome # "ok"
                 /\ services'[key].last_health_check = now
                 /\ services'[key].last_health_check # None
          /\ ( /\ rcall'.outcome = outcome
               /\ CycleCheckStep(app_id, outcome)
               /\ HttpWithEndpoint(hc_snapshot[key].service) ) =>
                 /\ hc_snapshot'[key].service.health_status = "healthy" <=>
                        outcome = "ok"
                 /\ hc_snapshot'[key].service.health_status = "unhealthy"
                        <=> outcome # "ok"
                 /\ hc_snapshot'[key].service.last_health_check = now
                 /\ hc_snapshot'[key].service.last_health_check # None
                 /\ services'[key] = hc_snapshot'[key].service]_vars

\* the latest check of a registered http service got a request error
C20_Witness ==
    /\ rcall.op \in {"_check_service_health", "_check_all_services_health"}
    /\ rcall.outcome = "error"
    /\ LET service == get_service(rcall.app_id, rcall.instance_id) IN
           /\ HttpWithEndpoint(service)
           /\ service.health_status = "unhealthy"
           /\ service.last_health_check = now

----------------------------------------------------------------------------
(* Properties of the checks by configuration, checked under SpecCheck      *)

\* a check of the one registered service, by a direct call or by the
\* cycle on the object the table holds
CheckStep(outcome) ==
    \/ /\ rcall'.op = "_check_service_health"
       /\ CheckServiceHealthCall("A", "1", outcome)
    \/ /\ rcall'.op = "_check_all_services_health"
       /\ rcall'.path # "detached"
       /\ CheckAllServicesHealthCheck("A:1", outcome)

\* the service object before the check and after it
CheckBefore ==
    IF rcall'.op = "_check_service_health"
    THEN services["A:1"] ELSE hc_snapshot["A:1"].service

CheckAfter ==
    IF rcall'.op = "_check_service_health"
    THEN services'["A:1"] ELSE hc_snapshot'["A:1"].service

HttpNoEndpoint(service) ==
    service.health_check_type = "http" /\ service.health_endpoint = ""

\* C21 as first stated: a check of an http service with no health_endpoint
\* sends no request and leaves health_status unknown, whatever it was.
C21_HttpNoEndpointLeftUnknown ==
    [][\A outcome \in Outcomes :
          (CheckStep(outcome) /\ HttpNoEndpoint(CheckBefore)) =>
              /\ rcall'.outcome = ""
              /\ CheckAfter.health_status = "unknown"]_vars

\* C21: a check of an http service with no health_endpoint sends no request
\* and does not raise; when the service has a health_check_command it
\* leaves health_status unknown and stamps last_health_check, whatever they
\* were, and when it has none the service is left as it was.
C21_HttpNoEndpointUnknownOrSkipped ==
    [][\A outcome \in Outcomes :
          (CheckStep(outcome) /\ HttpNoEndpoint(CheckBefore)) =>
              /\ rcall'.outcome = ""
              /\ rcall'.path \in {"returned", "skipped"}
              /\ services'["A:1"] = CheckAfter
              /\ IF CheckBefore.health_check_command # ""
                 THEN CheckAfter =
                          [CheckBefore EXCEPT !.health_status = "unknown",
                                              !.last_health_check = now]
                 ELSE CheckAfter = CheckBefore]_vars

\* the latest check met an http service with a command and no endpoint and
\* left it unknown, stamped
C21_Witness ==
    /\ rcall.op \in {"_check_service_health", "_check_all_services_health"}
    /\ rcall.path = "returned"
    /\ rcall.outcome = ""
    /\ "A:1" \in DOMAIN services
    /\ HttpNoEndpoint(services["A:1"])
    /\ services["A:1"].health_check_command # ""
    /\ services["A:1"].health_status = "unknown"
    /\ services["A:1"].last_health_check = now

\* C22 as first stated: a check of a custom service sets health_status to
\* unknown, whether or not it has a health_endpoint or health_check_command.
C22_CustomAlwaysUnknown ==
    [][\A outcome \in Outcomes :
          ( /\ CheckStep(outcome)
            /\ CheckBefore.health_check_type = "custom" ) =>
              CheckAfter.health_status = "unknown"]_vars

\* C22: a check of a custom service that has a health_endpoint or a
\* health_check_command sets health_status to unknown and stamps
\* last_health_check, whatever the probe would have answered; a custom
\* service with neither is left as it was.
C22_CustomUnknownUnlessSkipped ==
    [][\A outcome \in Outcomes :
          ( /\ CheckStep(outcome)
            /\ CheckBefore.health_check_type = "custom" ) =>
              /\ rcall'.outcome = ""
              /\ services'["A:1"] = CheckAfter
              /\ IF \/ CheckBefore.health_endpoint # ""
                    \/ CheckBefore.health_check_command # ""
                 THEN /\ rcall'.path = "returned"
                      /\ CheckAfter =
                             [CheckBefore EXCEPT
                                 !.health_status = "unknown",
                                 !.last_health_check = now]
                 ELSE CheckAfter = CheckBefore]_vars

\* the latest check met a custom service with an endpoint and a command,
\* which an earlier registration had as healthy, and left it unknown
C22_Witness ==
    /\ rcall.op \in {"_check_service_health", "_check_all_services_health"}
    /\ rcall.path = "returned"
    /\ "A:1" \in DOMAIN services
    /\ services["A:1"].health_check_type = "custom"
    /\ services["A:1"].health_endpoint # ""
    /\ services["A:1"].health_check_command # ""
    /\ services["A:1"].health_status = "unknown"
    /\ services["A:1"].last_health_check = now
    /\ services_file.state = "ok"
    /\ \E r \in services_file.data :
           r.health_check_type = "custom" /\ r.health_status = "healthy"

NoHealthMechanism(service) ==
    /\ service.health_endpoint = ""
    /\ service.health_check_command = ""
    /\ service.health_check_type # "tcp"

\* C23: a check of a service with no health_endpoint, no
\* health_check_command and a type other than tcp changes nothing of the
\* service, raises nothing and so never marks it unhealthy; a check of a
\* tcp service always makes the connection and stamps last_health_check,
\* leaving healthy for a result of 0 and unhealthy for another result or a
\* socket error, also with no endpoint and no command.
C23_NoMechanismUntouchedTcpProbed ==
    [][\A outcome \in Outcomes :
          /\ (CheckStep(outcome) /\ NoHealthMechanism(CheckBefore)) =>
                 /\ CheckAfter = CheckBefore
                 /\ services'["A:1"] = CheckBefore
                 /\ rcall'.path = "skipped"
                 /\ rcall'.outcome = ""
          /\ ( /\ CheckStep(outcome)
               /\ CheckBefore.health_check_type = "tcp" ) =>
                 /\ rcall'.outcome = outcome
                 /\ rcall'.path # "skipped"
                 /\ CheckAfter.last_health_check = now
                 /\ outcome = "ok" => CheckAfter.health_status = "healthy"
                 /\ outcome \in {"fail", "error"} =>
                        CheckAfter.health_status = "unhealthy"]_vars

\* the cycle's latest check skipped a command service with no command and
\* no endpoint, which keeps the healthy status and the older timestamp it
\* was registered with
C23_Witness ==
    /\ rcall.op = "_check_all_services_health"
    /\ rcall.path = "skipped"
    /\ "A:1" \in DOMAIN services
    /\ "A:1" \in DOMAIN hc_checked
    /\ services["A:1"].health_check_type = "command"
    /\ NoHealthMechanism(services["A:1"])
    /\ services["A:1"].health_status = "healthy"
    /\ services["A:1"].last_health_check = Earlier

----------------------------------------------------------------------------
(* Properties of the worker threads and close, checked under SpecWorker    *)
(* and, for what the worker is bound to do, under SpecWorkerFair           *)

\* C24: while the stop flag is set no worker passes the test of its while
\* loop, and a worker inside a cycle leaves it only through the end of its
\* list and into the wait; from the flag being set every worker terminates,
\* the idle one without the interval having to pass, the busy one at the
\* end of its cycle.
C24_StopEndsTheWorker ==
    /\ [][\A t \in 1 .. Len(workers) :
             stop_health_check =>
                 /\ workers'[t] = "call" => workers[t] = "call"
                 /\ (workers[t] = "cycle" /\ workers'[t] # "cycle") =>
                        /\ workers'[t] = "wait"
                        /\ DOMAIN hc_checked = DOMAIN hc_snapshot
                 /\ workers[t] = "wait" => workers'[t] \in {"wait", "test"}
                 /\ workers[t] = "test" => workers'[t] \in {"test", "done"}
                 /\ workers[t] = "done" => workers'[t] = "done"]_vars
    /\ stop_health_check ~> (LiveWorkers = {})

\* close found the worker waiting after a cycle that marked a service
\* unhealthy; the worker has terminated with the interval not over
C24_Witness ==
    /\ stop_health_check
    /\ workers = <<"done">>
    /\ ~interval_over
    /\ close_pc = "returned"
    /\ rcall.op = "close"
    /\ rcall.path = "joined"
    /\ \E k \in DOMAIN services :
           /\ services[k].health_status = "unhealthy"
           /\ services[k].last_health_check = now

\* a step of a worker thread
WorkerStep ==
    \/ hc_current' # hc_current
    \/ hc_checked' # hc_checked
    \/ \E t \in 1 .. Len(workers) : workers'[t] # workers[t]

\* close returns in this step
CloseReturns == close_pc # "returned" /\ close_pc' = "returned"

\* close has returned and the checker was not started again since
Closed == close_pc = "returned" /\ (stop_health_check \/ LiveWorkers = {})

\* the file as written from the table
FileHolds(file, table) ==
    file = [state |-> "ok", data |-> {table[k] : k \in DOMAIN table}]

C26_CheckIsSerialized ==
    [][/\ (hc_current # NoCheck /\ hc_current' # NoCheck) =>
              /\ services' = services
              /\ services_file' = services_file
       /\ hc_current' # NoCheck =>
              LET key == hc_current'.key IN
              ( /\ hc_snapshot'[key].attached
                /\ services'[key].last_health_check = now
                /\ hc_current'.before.last_health_check # now
                /\ services'[key].health_status =
                       hc_current'.before.health_status ) =>
                  services'[key] \notin services_file'.data]_vars

\* C27: a registry never has two live worker threads; a worker enters a
\* cycle only from the call of its loop body with no cycle running, leaves
\* it only into the wait and with every service of its list visited and no
\* check pending, and comes to the next call only through the wait and the
\* test of the loop; a running cycle is that of the one live worker.
C27_CyclesNeverOverlap ==
    [][/\ Cardinality(LiveWorkers') <= 1
       /\ \A t \in 1 .. Len(workers) :
              /\ (workers[t] # "cycle" /\ workers'[t] = "cycle") =>
                     /\ workers[t] = "call"
                     /\ hc_pc = "idle"
                     /\ DOMAIN hc_snapshot' = DOMAIN services
                     /\ hc_checked' = EmptyTable
              /\ (workers[t] = "cycle" /\ workers'[t] # "cycle") =>
                     /\ workers'[t] = "wait"
                     /\ DOMAIN hc_checked = DOMAIN hc_snapshot
                     /\ hc_current = NoCheck
              /\ (workers[t] # "call" /\ workers'[t] = "call") =>
                     workers[t] = "test"
              /\ (workers[t] # "test" /\ workers'[t] = "test") =>
                     workers[t] = "wait"
       /\ hc_pc' = "cycle" =>
              \E t \in LiveWorkers' :
                  /\ workers'[t] = "cycle"
                  /\ LiveWorkers' = {t}
       /\ hc_current' # NoCheck => hc_pc' = "cycle"]_vars

\* the first worker has terminated and a second one, started after it, is
\* in a cycle with one of two listed services visited
C27_Witness ==
    /\ workers = <<"done", "cycle">>
    /\ hc_pc = "cycle"
    /\ Cardinality(DOMAIN hc_snapshot) = 2
    /\ Cardinality(DOMAIN hc_checked) = 1

----------------------------------------------------------------------------
(* Properties of construction on the file, checked under SpecLoad          *)

\* C28: constructing an allocator or a registry on a file that is missing
\* or damaged raises nothing and gives an empty store, on which the next
\* allocate or register_service works and is persisted.
C28_MissingOrCorruptLoadsEmpty ==
    [][/\ ( /\ call'.op = "construct"
            /\ storage_file.state # "ok"
            /\ Construct({}) ) =>
              port_assignments' = EmptyTable
       /\ ( /\ call.op = "construct"
            /\ storage_file.state # "ok"
            /\ \E app_id \in AppIds : AllocateCall(app_id, None) ) =>
              /\ call'.ret \in RangePorts
              /\ storage_file' = Persisted(port_assignments')
       /\ ( /\ rcall'.op = "construct"
            /\ services_file.state # "ok"
            /\ RegistryConstruct ) =>
              /\ registry_up'
              /\ services' = EmptyTable
       /\ ( /\ rcall.op = "construct"
            /\ services_file.state # "ok"
            /\ \E service \in LoadServiceArgs : RegisterStep(service) ) =>
              /\ DOMAIN services' = {rcall'.app_id \o ":1"}
              /\ FileHolds(services_file', services')]_vars

----------------------------------------------------------------------------
(* Properties of _merge_config, checked under SpecMerge                    *)

\* C29: after _merge_config(base, override) base holds the keys of both
\* trees; a key the override lacks keeps its base value; a key both hold as
\* mappings holds the merge of the two mappings, key by key in the same
\* way; any other key of the override holds the override's value, a list
\* as the override's list whole.
C29_MergeConfig ==
    ccall.op = "_merge_config" =>
        /\ DOMAIN config = DOMAIN ccall.base \cup DOMAIN ccall.override
        /\ \A key \in DOMAIN ccall.base \ DOMAIN ccall.override :
               config[key] = ccall.base[key]
        /\ \A key \in DOMAIN ccall.override \ DOMAIN ccall.base :
               config[key] = ccall.override[key]
        /\ \A key \in DOMAIN ccall.override \cap DOMAIN ccall.base :
               LET below == ccall.base[key]
                   above == ccall.override[key]
               IN  IF below.kind = "map" /\ above.kind = "map"
                   THEN /\ config[key].kind = "map"
                        /\ DOMAIN config[key].v =
                               DOMAIN below.v \cup DOMAIN above.v
                        /\ \A k \in DOMAIN below.v \ DOMAIN above.v :
                               config[key].v[k] = below.v[k]
                        /\ \A k \in DOMAIN above.v :
                               config[key].v[k] = above.v[k]
                   ELSE config[key] = above

\* base {a: {x: 1, y: [1]}, b: [1, 2]} merged with the override
\* {a: {y: [1, 2]}} gave {a: {x: 1, y: [1, 2]}, b: [1, 2]}
C29_Witness ==
    /\ ccall.op = "_merge_config"
    /\ ccall.base = [a |-> Map([x |-> Scalar(1), y |-> List(<<1>>)]),
                     b |-> List(<<1, 2>>)]
    /\ ccall.override = [a |-> Map([y |-> List(<<1, 2>>)])]
    /\ config = [a |-> Map([x |-> Scalar(1), y |-> List(<<1, 2>>)]),
                 b |-> List(<<1, 2>>)]

----------------------------------------------------------------------------
(* Properties of get_app_config, checked under SpecConfig                  *)

RECURSIVE DeepMerge(_, _)

\* the trees of the sequence merged one after the other into the first
DeepMerge(tree, layers) ==
    IF layers = <<>> THEN tree
    ELSE DeepMerge(_merge_config(tree, Head(layers)), Tail(layers))

\* C30: get_app_config(app_id, instance_id) returns the deep merge of the
\* files in the order default, environment, app, app and environment,
\* instance, instance and environment, the last two only with an
\* instance_id.
C30_GetAppConfigIsLayeredMerge ==
    ccall.op = "get_app_config" =>
        app_config =
            DeepMerge(EmptyTable,
                <<_load_config("default"), _load_config(environment),
                  _load_config("app_" \o ccall.app_id),
                  _load_config("app_" \o ccall.app_id \o "_" \o environment)>>
                \o ( IF ccall.instance_id # ""
                     THEN <<_load_config("instance_" \o ccall.app_id \o "_"
                                         \o ccall.instance_id),
                            _load_config("instance_" \o ccall.app_id \o "_"
                                         \o ccall.instance_id \o "_"
                                         \o environment)>>
                     ELSE <<>> ))

----------------------------------------------------------------------------
(* Further properties of the allocator, checked under Spec                 *)

\* the step is a call of find_available_port, direct or from allocate_port,
\* that returned a port
FindStep ==
    /\ call'.path = "find"
    /\ FindAvailablePortCall \/ AllocateStep

\* the used ports find_available_port tries first that are usable
UsedAndFree == {p \in used_ports : p \in RangePorts /\ Free(p)}

\* C32: find_available_port prefers used ports: when a port that is a value
\* of the table lies in the range and probes available it returns such a
\* port, never a fresh one; only when there is none does it return a port of
\* the range that is unreserved, not assigned and probes available.
C32_FindPrefersUsedPorts ==
    [][ FindStep =>
          IF UsedAndFree # {}
          THEN call'.ret \in UsedAndFree
          ELSE /\ call'.ret \in RangePorts
               /\ call'.ret \notin used_ports
               /\ Free(call'.ret) ]_vars

\* find_available_port returned a used port while a fresh port of the range
\* was free as well
C32_Witness ==
    /\ call.op = "find_available_port"
    /\ call.ret \in used_ports
    /\ \E p \in RangePorts : p \notin used_ports /\ Free(p)

\* C33: when allocate_port fails because the range is exhausted the error
\* reaches the caller, and the table (a stale assignment of the key
\* included) and the file are as they were.
C33_ExhaustedAllocateChangesNothing ==
    [][ \A app_id \in AppIds, preferred_port \in PreferredArgs :
          AllocateCall(app_id, preferred_port) =>
            /\ (~ \E p \in RangePorts : Free(p)) => call'.ret = RuntimeError
            /\ call'.ret = RuntimeError =>
                 /\ port_assignments' = port_assignments
                 /\ storage_file' = storage_file ]_vars

\* allocate_port raised for a key whose stale assignment is still in the
\* table and in the file
C33_Witness ==
    /\ call.op = "allocate_port"
    /\ call.ret = RuntimeError
    /\ call.app_id \in DOMAIN port_assignments
    /\ ~ Free(port_assignments[call.app_id])
    /\ storage_file = Persisted(port_assignments)

\* C34: every port allocate_port or find_available_port returns is
\* unreserved and probes available at the call; starting from a table with
\* ports of the range only, every port allocate_port returns and every port
\* of the table is within the range.
C34_ReturnedPortsFreeAndInRange ==
    [][ /\ \A k \in DOMAIN port_assignments' :
               port_assignments'[k] \in RangePorts
        /\ ( /\ call'.op \in {"allocate_port", "find_available_port"}
             /\ call'.ret # RuntimeError
             /\ FindAvailablePortCall \/ AllocateStep )
           => ( /\ call'.ret \notin reserved_ports
                /\ call'.ret \notin bound_ports
                /\ call'.ret \in RangePorts ) ]_vars

\* allocate_port returned the key's assigned port while another port was
\* reserved and a third one bound, after a preferred port outside the range
\* was asked for
C34_Witness ==
    /\ call.op = "allocate_port"
    /\ call.port = OutsidePort
    /\ call.ret \in RangePorts
    /\ call.ret \notin reserved_ports \cup bound_ports
    /\ reserved_ports # {}
    /\ bound_ports \ reserved_ports # {}

----------------------------------------------------------------------------
(* Further properties of get_dependency_order, checked under SpecDep       *)

\* the returned layers are non-empty and pairwise disjoint, hold registered
\* ids only, and hold every dependency of a listed service in an earlier
\* layer than the service
LayersWellFormed ==
    /\ \A i \in 1..Len(order) : order[i] # {}
    /\ \A i, j \in 1..Len(order) : i # j => order[i] \cap order[j] = {}
    /\ Listed \subseteq Registered
    /\ \A service_id \in Listed :
           \A dep \in services[service_id].dependencies :
               /\ dep \in Listed
               /\ LayerOf(dep) < LayerOf(service_id)

\* a step of a running get_dependency_order
DependencyOrderStep ==
    \/ dep_pc' = "loop"
    \/ dep_pc = "loop"

\* C38: on every table, with cycles and unregistered dependencies, the
\* layers get_dependency_order returns are non-empty, pairwise disjoint, of
\* registered ids only, with every declared dependency of a listed service
\* in a strictly earlier layer; the call leaves the table and the
\* dependencies of its records as they are, and a call repeated on the same
\* table returns the same layers.
C38_LayersWellFormedTableKept ==
    [][ /\ dep_pc' = "returned" => LayersWellFormed'
        /\ DependencyOrderStep => services' = services
        /\ ( dep_pc = "loop" /\ dep_pc' = "returned" /\ order # <<>> )
           => order' = order ]_vars

\* a second call, on a table with a service that is on a cycle and names an
\* unregistered dependency, about to return the two layers the first call
\* returned
C38_Witness ==
    /\ dep_pc = "loop"
    /\ no_deps = {}
    /\ Len(order) = 2
    /\ result = order
    /\ \E service_id \in Registered \ Listed :
           /\ OnCycle(service_id)
           /\ ~ (services[service_id].dependencies \subseteq Registered)

\* C39: get_app_config does not change the manager's own configuration:
\* get_config_value returns after a call what it returned before it, and
\* get_app_config returns for an application what it returns on a manager
\* on which no other application was asked for before.
C39_GetAppConfigLeavesConfig ==
    [][ ccall'.op = "get_app_config" =>
          /\ \A keys \in KeyPaths :
                 get_config_value(keys, None)' = get_config_value(keys, None)
          /\ app_config' =
                 merge_layers(Copied(ConfigManager_config),
                              app_layers(ccall'.app_id,
                                         ccall'.instance_id)).app ]_vars

----------------------------------------------------------------------------
(* Further properties of the health checks, checked under SpecFrame        *)

\* the step is a check of the application's service, direct or of a cycle
\* that still holds the table's object
CheckOfApp(app_id, outcome) ==
    /\ rcall'.app_id = app_id
    /\ \/ /\ rcall'.op = "_check_service_health"
          /\ CheckServiceHealthCall(app_id, "1", outcome)
       \/ /\ rcall'.op = "_check_all_services_health"
          /\ CheckAllServicesHealthCheck(service_key(app_id, "1"), outcome)

HealthStatuses == {"unknown", "healthy", "unhealthy"}

\* C37: a health check, of a cycle or direct, changes of the checked record
\* health_status and last_health_check only, so not status, port, host or
\* dependencies, changes no other record, and leaves health_status within
\* unknown, healthy and unhealthy.
C37_CheckChangesHealthFieldsOnly ==
    [][ \A app_id \in {"A", "B"}, outcome \in Outcomes :
          CheckOfApp(app_id, outcome) =>
            LET key == service_key(app_id, "1") IN
            /\ DOMAIN services' = DOMAIN services
            /\ \A other \in DOMAIN services \ {key} :
                   services'[other] = services[other]
            /\ services'[key] =
                   [services[key] EXCEPT
                       !.health_status = services'[key].health_status,
                       !.last_health_check =
                           services'[key].last_health_check]
            /\ services[key].health_status \in HealthStatuses
                   => services'[key].health_status \in HealthStatuses ]_vars

\* the cycle's check of the first service raised and was caught: the
\* service is unhealthy and stamped, keeps its status, and the second one,
\* running and never checked, is as it was registered
C37_Witness ==
    /\ rcall.op = "_check_all_services_health"
    /\ rcall.app_id = "A"
    /\ rcall.path = "caught"
    /\ DOMAIN services = {"A:1", "B:1"}
    /\ services["A:1"].health_status = "unhealthy"
    /\ services["A:1"].last_health_check = now
    /\ services["A:1"].status = "unknown"
    /\ services["B:1"] = CheckCompanion

----------------------------------------------------------------------------
(* Further properties of the worker, checked under SpecWorker and, for     *)
(* what it is bound to do, under SpecWorkerLive                            *)

\* a foreground call stores a record under A:1, new or in place of another
ReplacesA ==
    /\ rcall'.op = "register_service"
    /\ rcall'.app_id = "A"
    /\ \E service \in WorkerServiceArgs : RegisterServiceCall(service)

\* the record of A:1 carries the stamp of a check
StampedA ==
    /\ "A:1" \in DOMAIN services
    /\ services["A:1"].last_health_check = now

\* C35: while the registry is not closed every cycle lists the registered
\* services and checks each, so a service with a configured check that
\* stays registered, also one registered while a cycle is running, is
\* checked in a later cycle and gets its last_health_check, when the
\* threads are scheduled fairly and every check ends.
C35_RegisteredServiceIsChecked ==
    ( /\ <>[][~ReplacesA]_vars
      /\ <>[]("A:1" \in DOMAIN services /\ ~stop_health_check) )
    => <>[]StampedA

\* the latest foreground call registered A:1, and a cycle after it has
\* checked the service and stamped it
C35_Witness ==
    /\ StampedA
    /\ ~stop_health_check
    /\ rcall.op = "register_service"
    /\ rcall.app_id = "A"
    /\ hc_pc = "cycle"
    /\ "A:1" \in DOMAIN hc_checked
    /\ hc_checked["A:1"] \in {"returned", "caught"}


\* C36: whatever register and unregister calls run between the steps of a
\* cycle, the worker adds no key to the table and removes none, so a
\* service unregistered after the snapshot stays absent; and a record that
\* replaced the one the cycle holds is not overwritten, neither by the old
\* record nor by the result of its check.
C36_WorkerWritesNoKeyNoReplacedRecord ==
    [][ WorkerStep =>
          /\ DOMAIN services' = DOMAIN services
          /\ \A key \in DOMAIN services \cap DOMAIN hc_snapshot :
                 hc_snapshot[key].service # services[key]
                     => services'[key] = services[key]
          /\ ( /\ hc_current # NoCheck
               /\ hc_current.key \in DOMAIN services
               /\ services[hc_current.key].last_health_check # now )
             => services' = services ]_vars

\* in a running cycle the check of A:1 ended on a record the table no
\* longer holds: register replaced it after the cycle's snapshot, and the
\* new record is as it was registered
C36_Witness ==
    /\ hc_pc = "cycle"
    /\ rcall.op = "register_service"
    /\ rcall.app_id = "A"
    /\ "A:1" \in DOMAIN hc_checked
    /\ hc_checked["A:1"] = "detached"
    /\ hc_snapshot["A:1"] = Detached
    /\ "A:1" \in DOMAIN services
    /\ services["A:1"].last_health_check = Earlier

----------------------------------------------------------------------------
(* Properties of DynaPortFlask, checked under SpecFlask                    *)

\* the step that ends the part of a method named last
FlaskStep(last) == flask'.calls # flask.calls /\ flask'.last = last

FlaskStatus(table) ==
    IF FlaskKey \in DOMAIN table THEN table[FlaskKey].status ELSE ""

\* C31: the Flask integration drives the lifecycle in order. Construction
\* first calls allocate_port under the key "app_id:instance_id", with the
\* service not yet registered, and when a port came back registers the
\* service with that port and status "starting"; wrap_app leaves the status
\* "running"; the end of app.run inside run_app, by return or by exception,
\* leaves it "stopped"; shutdown first leaves the status "stopped" with the
\* port still assigned, and then removes the assignment of that same key
\* and of no other.
C31_FlaskDrivesLifecycle ==
    [][ /\ FlaskStep("init_allocate") =>
            /\ call'.op = "allocate_port"
            /\ call'.app_id = FlaskKey
            /\ FlaskKey \notin DOMAIN services'
            /\ call'.ret # RuntimeError =>
                   /\ flask'.pc = "allocated"
                   /\ FlaskKey \in DOMAIN port_assignments'
                   /\ port_assignments'[FlaskKey] = call'.ret
        /\ FlaskStep("init_register") =>
            /\ flask.last = "init_allocate"
            /\ FlaskStatus(services') = "starting"
            /\ FlaskKey \in DOMAIN port_assignments
            /\ services'[FlaskKey].port = port_assignments[FlaskKey]
            /\ port_assignments' = port_assignments
        /\ FlaskStep("wrap_app") => FlaskStatus(services') = "running"
        /\ (FlaskStep("run_app_returns") \/ FlaskStep("run_app_raises")) =>
            /\ flask.pc = "running"
            /\ FlaskStatus(services') = "stopped"
        /\ FlaskStep("shutdown_status") =>
            /\ FlaskStatus(services') = "stopped"
            /\ port_assignments' = port_assignments
        /\ FlaskStep("shutdown_release") =>
            /\ flask.last = "shutdown_status"
            /\ FlaskStatus(services') = "stopped"
            /\ call'.op = "release_port"
            /\ call'.app_id = FlaskKey
            /\ port_assignments' =
                   [k \in DOMAIN port_assignments \ {FlaskKey} |->
                       port_assignments[k]]
      ]_vars

\* shutdown has returned on an object whose application was wrapped: the
\* service is registered with the port the constructor was given and
\* status "stopped", the key holds no port any more, and another
\* application still holds its own
C31_Witness ==
    /\ flask.last = "shutdown_release"
    /\ flask.app
    /\ rcall.op = "update_service_status"
    /\ FlaskStatus(services) = "stopped"
    /\ services[FlaskKey].port = flask.port
    /\ FlaskKey \notin DOMAIN port_assignments
    /\ "svc:1" \in DOMAIN port_assignments

====
